---- MODULE Spec2Model ----
(***************************************************************************)
(* A model of the ooze interpreter: the driver (parse_scripts, run,        *)
(* run_to_string over a string-keyed binding map), the promise / future /  *)
(* borrow protocol the driver's values live in, and the execution of a     *)
(* dataflow graph on a sequential or a multi-threaded executor.            *)
(***************************************************************************)
EXTENDS Integers, Sequences, FiniteSets, TLC

VARIABLES
  env,       \* EnvData: src, ast, tg, program, fns, parsed_roots
  bindings,  \* Bindings: name -> Binding{type, values}; a value is a cell id
  pc,        \* "idle", or "running" while the driver is inside run
  last,      \* what the last driver call was given and what it returned
  exMode,    \* the executor handed to run: "seq" or "task"
  cells,     \* the shared state of every promise/future pair
  tasks      \* callables the executor holds: queued or running

vars == <<env, bindings, pc, last, exMode, cells, tasks>>

(***************************************************************************)
(* Bounds of the model.                                                    *)
(***************************************************************************)
MaxCells == 3
MaxFns == 3
NThreads == 2
MaxTasks == 1

(***************************************************************************)
(* Values: a type-erased Any. For the tests' Sentinal, cp counts the       *)
(* copies made on the way to this object; an int or a string carries no    *)
(* such count.                                                             *)
(***************************************************************************)
NoVal == [ty |-> "none", i |-> 0, s |-> "", cp |-> 0]
IntVal(i) == [ty |-> "i32", i |-> i, s |-> "", cp |-> 0]
StrVal(s) == [ty |-> "string", i |-> 0, s |-> s, cp |-> 0]
FnVal(name) == [ty |-> "fn", i |-> 0, s |-> name, cp |-> 0]
SentVal(id) == [ty |-> "sentinal", i |-> id, s |-> "", cp |-> 0]

\* What a read of a moved-from object can give.
Garbage == [ty |-> "moved", i |-> 0, s |-> "", cp |-> 0]

\* The payload of a value, whatever number of copies led to it.

\* a variant of CopyOf that leaves no trace of the copy
CopyUncounted(v) == v

\* a copy of an Any (Any's copy constructor)
CopyOf(v) == IF v.ty = "sentinal" THEN [v EXCEPT !.cp = @ + 1] ELSE v

\* fmt::format("{}", x) for the integers the model uses
Digits == (3 :> "3")

to_string(v) ==
  IF v.ty = "i32" THEN StrVal(Digits[v.i])
  ELSE IF v.ty = "string" THEN StrVal(v.s)
  ELSE Garbage

(***************************************************************************)
(* Types: a tree of Leaf / Tuple / Fn nodes.                               *)
(***************************************************************************)
Leaf(id) == [tag |-> "Leaf", id |-> id, kids |-> <<>>]
TupleT(ks) == [tag |-> "Tuple", id |-> "", kids |-> ks]
NoType == [tag |-> "None", id |-> "", kids |-> <<>>]
Unit == TupleT(<<>>)
FnT == [tag |-> "Fn", id |-> "", kids |-> <<Unit, Leaf("i32")>>]
BorrowT(t) == [tag |-> "Borrow", id |-> "", kids |-> <<t>>]
FnOf(a, r) == [tag |-> "Fn", id |-> "", kids |-> <<a, r>>]
Floating == [tag |-> "Floating", id |-> "", kids |-> <<>>]

\* NativeTypeInfo.copyable
copy_types == {"i32"}

\* a variant of is_binding_copyable: one copyable leaf is enough
RECURSIVE any_leaf_copyable(_)
any_leaf_copyable(type) ==
  CASE type.tag = "Leaf" -> type.id \in copy_types
    [] type.tag = "Fn" -> TRUE
    [] type.tag = "Tuple" ->
         \E k \in 1..Len(type.kids) : any_leaf_copyable(type.kids[k])
    [] OTHER -> FALSE

RECURSIVE is_binding_copyable(_)
is_binding_copyable(type) ==
  CASE type.tag = "Leaf" -> type.id \in copy_types
    [] type.tag = "Fn" -> TRUE
    [] type.tag = "Tuple" ->
         \A k \in 1..Len(type.kids) : is_binding_copyable(type.kids[k])
    [] OTHER -> FALSE

RECURSIVE size_of(_)
size_of(type) ==
  CASE type.tag \in {"Leaf", "Fn"} -> 1
    [] type.tag = "Tuple" ->
         LET RECURSIVE Sum(_)
             Sum(k) == IF k = 0 THEN 0 ELSE Sum(k - 1) + size_of(type.kids[k])
         IN Sum(Len(type.kids))
    [] OTHER -> 0

(***************************************************************************)
(* The future / borrow protocol. A cell is the shared state of one         *)
(* promise/future pair:                                                    *)
(*   pending  the promise has not sent                                     *)
(*   lent     the value is there and BorrowedFuture shares are out         *)
(*   ready    the owning Future is resolved                                *)
(*   free     no pair lives here: never made, moved out of, or destroyed   *)
(***************************************************************************)
Cell(st, val, shares) == [st |-> st, val |-> val, shares |-> shares]
FreeCell == Cell("free", NoVal, 0)

FreeIds(cs) == {c \in DOMAIN cs : cs[c].st = "free"}

\* the k lowest free cell ids, as a sequence
RECURSIVE Fresh(_, _)
Fresh(cs, k) ==
  IF k = 0 THEN <<>>
  ELSE LET c == CHOOSE c \in FreeIds(cs) : \A d \in FreeIds(cs) : c <= d
       IN <<c>> \o Fresh([cs EXCEPT ![c] = Cell("pending", NoVal, 0)], k - 1)

\* Future(Any): a new pair that is resolved from the start
NewReady(cs, c, v) == [cs EXCEPT ![c] = Cell("ready", v, 0)]

\* Promise.send: resolves the pair; with shares out the value goes to the
\* borrowers first
Send(cs, c, v) ==
  IF c \in DOMAIN cs /\ cs[c].st = "pending"
  THEN [cs EXCEPT ![c] =
          Cell(IF @.shares > 0 THEN "lent" ELSE "ready", v, @.shares)]
  ELSE cs

\* borrow(Future): one more BorrowedFuture share; the owning Future is
\* unresolved until the last share is dropped

Borrow(cs, c) ==
  [cs EXCEPT ![c] = Cell(IF @.st = "ready" THEN "lent" ELSE @.st,
                         @.val, @.shares + 1)]

\* a variant of Release that resolves the owning Future at the first share
\* dropped
ReleaseEarly(cs, c) ==
  [cs EXCEPT ![c] = Cell(IF @.st = "lent" THEN "ready" ELSE @.st,
                         @.val, IF @.shares > 0 THEN @.shares - 1 ELSE 0)]

\* ~BorrowedFuture: the last share dropped moves the value to the owning
\* Future
Release(cs, c) ==
  [cs EXCEPT ![c] = Cell(IF @.st = "lent" /\ @.shares = 1 THEN "ready" ELSE @.st,
                         @.val, @.shares - 1)]

\* Future.wait / a Move edge: the value is moved out of a resolved Future
\* and the pair is gone
Take(cs, c) == [cs EXCEPT ![c] = FreeCell]

\* the value a reader of the cell sees: a moved-from or unresolved slot
\* holds nothing a reader can rely on
ReadVal(cs, c) == IF cs[c].st \in {"lent", "ready"} THEN cs[c].val ELSE Garbage

(***************************************************************************)
(* Tasks: the callables execute() hands to the executor. A task waits for  *)
(* its inputs, runs its function on a worker and sends to its promise.     *)
(***************************************************************************)
In(c, by) == [c |-> c, by |-> by]
Task(fn, ins, out) ==
  [fn |-> fn, ins |-> ins, out |-> out, st |-> "queued",
   vals |-> [k \in 1..Len(ins) |-> NoVal]]

InCells(t) == {t.ins[k].c : k \in 1..Len(t.ins)}
BorrowedBy(t) == {t.ins[k].c : k \in {j \in 1..Len(t.ins) : t.ins[j].by = "borrow"}}
MovedBy(t) == {t.ins[k].c : k \in {j \in 1..Len(t.ins) : t.ins[j].by = "move"}}

\* the node functions the model uses
Apply(fn, vs) ==
  CASE fn = "copy" -> CopyOf(vs[1])
    [] fn = "clone" -> CopyOf(vs[1])
    [] fn = "tostr" -> to_string(vs[1])
    [] fn = "take" -> vs[1]
    [] fn = "out" -> StrVal(vs[1].s \o " out")
    [] fn = "none" -> NoVal
    [] OTHER -> Garbage

(***************************************************************************)
(* Bindings: a map from names to Binding{type, values}.                    *)
(***************************************************************************)
Names == {"x", "y"}
Binding(type, values) == [type |-> type, values |-> values]
NoBindings == [n \in {} |-> Binding(NoType, <<>>)]

SeqRange(s) == {s[k] : k \in 1..Len(s)}
CellsOf(bs) == UNION {SeqRange(bs[n].values) : n \in DOMAIN bs}

\* a variant of CellState that looks at the resolution of the value first
CellStatePendingFirst(cs, c) ==
  IF cs[c].st = "pending" THEN "Pending"
  ELSE IF cs[c].shares > 0 THEN "Borrowed"
  ELSE "Ready"

\* find_binding_state of one value: lent out, else unresolved, else ready
CellState(cs, c) ==
  IF cs[c].shares > 0 THEN "Borrowed"
  ELSE IF cs[c].st = "pending" THEN "Pending"
  ELSE "Ready"

\* BindingState as a number
StateRank(st) ==
  CASE st = "Ready" -> 0
    [] st = "Pending" -> 1
    [] OTHER -> 2

\* the maximum over the binding's values, from Ready
find_binding_state(cs, b) ==
  LET sts == {"Ready"} \cup {CellState(cs, c) : c \in SeqRange(b.values)}
  IN CHOOSE st \in sts : \A t \in sts : StateRank(t) <= StateRank(st)

(***************************************************************************)
(* What the driver is asked to run: an expression or `let n = e`.          *)
(***************************************************************************)
Lits == {IntVal(3), StrVal("abc")}

Expr(k, a, b, v) == [k |-> k, a |-> a, b |-> b, v |-> v]
Lit(v) == Expr("lit", "", "", v)          \* 3, 4, 'abc'
Id(n) == Expr("id", n, "", NoVal)         \* n
Clone(n) == Expr("clone", n, "", NoVal)   \* clone(&n)
ToStr(n) == Expr("tostr", n, "", NoVal)   \* to_string(&n)
Ref(n) == Expr("ref", n, "", NoVal)       \* &n
Pair(a, b) == Expr("pair", a, b, NoVal)   \* (a, b)
Fn(f) == Expr("fn", "", "", FnVal(f))     \* f, a global function
Bad == Expr("bad", "", "", NoVal)         \* text the parser rejects

Exprs ==
  {Lit(v) : v \in Lits} \cup {Id(n) : n \in Names} \cup
  {Clone(n) : n \in Names} \cup {ToStr(n) : n \in Names} \cup
  {Ref(n) : n \in Names} \cup {Fn("clone"), Bad}

Input(l, e) == [let |-> l, e |-> e]

(***************************************************************************)
(* Patterns: an identifier, the wildcard, or a tuple of patterns.          *)
(***************************************************************************)
PIdent(n) == [tag |-> "ident", name |-> n, kids |-> <<>>]
PWild == [tag |-> "wild", name |-> "", kids |-> <<>>]
PTuple(ks) == [tag |-> "tuple", name |-> "", kids |-> ks]

\* a `let` with a pattern in the place of the single name
PatInput(pat, e) == [let |-> "(pattern)", e |-> e, pat |-> pat]
PatternOf(inp) == IF "pat" \in DOMAIN inp THEN inp.pat ELSE PIdent(inp.let)

RECURSIVE PatNames(_)
PatNames(pat) ==
  IF pat.tag = "ident" THEN {pat.name}
  ELSE UNION {PatNames(pat.kids[k]) : k \in 1..Len(pat.kids)}

RECURSIVE IdentCount(_)
IdentCount(pat) ==
  IF pat.tag = "ident" THEN 1
  ELSE IF pat.kids = <<>> THEN 0
  ELSE IdentCount(Head(pat.kids)) + IdentCount(PTuple(Tail(pat.kids)))

\* Assignment(pat, expr): type(pat) = type(expr), component-wise through
\* PatternTuple; a mismatch is "expected (_), given ()"
RECURSIVE Unifies(_, _)
Unifies(pat, type) ==
  pat.tag = "tuple" =>
    /\ type.tag = "Tuple"
    /\ Len(type.kids) = Len(pat.kids)
    /\ \A k \in 1..Len(pat.kids) : Unifies(pat.kids[k], type.kids[k])

\* forest.leaf_ids(pattern): the leaves of the pattern from left to right,
\* each with the type sema gave it; a tuple with no children is a leaf
RECURSIVE leaf_ids(_, _)
leaf_ids(pat, type) ==
  IF pat.tag = "tuple" /\ pat.kids # <<>>
  THEN leaf_ids(Head(pat.kids), Head(type.kids))
       \o (IF Len(pat.kids) = 1 THEN <<>>
           ELSE leaf_ids(PTuple(Tail(pat.kids)), TupleT(Tail(type.kids))))
  ELSE <<[tag |-> pat.tag, name |-> pat.name, type |-> type]>>

\* what run is given: any expression, or a `let` of an expression that can
\* be well formed
LetExprs == {e \in Exprs : e.k \notin {"fn", "bad"}}
Inputs == {Input("", e) : e \in Exprs} \cup {Input(l, e) : l \in Names, e \in LetExprs}

\* what run_to_string is given: any expression, or a `let` of a literal
StrInputs == {Input("", e) : e \in Exprs} \cup {Input(l, Lit(v)) : l \in Names, v \in Lits}

\* the binding names an expression mentions
Mentions(e) == {e.a, e.b} \ {""}
\* those it mentions under an ExprBorrow
BorrowUses(e) == IF e.k \in {"clone", "tostr", "ref"} THEN {e.a} ELSE {}
\* those it mentions by value
ValueUses(e) == IF e.k \in {"id", "pair"} THEN {e.a, e.b} \ {""} ELSE {}

TypeOfLit(v) == Leaf(v.ty)

TypeOfExpr(bs, e) ==
  CASE e.k = "lit" -> TypeOfLit(e.v)
    [] e.k = "fn" -> FnT
    [] e.k \in {"id", "clone"} -> bs[e.a].type
    [] e.k = "ref" -> BorrowT(bs[e.a].type)
    [] e.k = "tostr" -> Leaf("string")
    [] e.k = "pair" -> TupleT(<<bs[e.a].type, bs[e.b].type>>)
    [] OTHER -> NoType

Ok(type) == [ok |-> TRUE, err |-> "", name |-> "", type |-> type]
Err(kind, name) == [ok |-> FALSE, err |-> kind, name |-> name, type |-> NoType]

\* a variant of sema that lets a borrow be the result
sema_borrow_returned(bs, inp) ==
  LET e == inp.e
      undeclared == Mentions(e) \ DOMAIN bs
  IN IF e.k = "bad" THEN Err("Parse", "")
     ELSE IF undeclared # {}
       THEN Err("UndefinedBinding", CHOOSE n \in undeclared : TRUE)
     ELSE IF e.k \in {"clone", "tostr"} /\ bs[e.a].type.tag # "Leaf"
       THEN Err("NoMatchingOverload", e.k)
     ELSE Ok(TypeOfExpr(bs, e))

\* parse_and_name_resolution followed by sema, on the AST prepare_ast built
\* from the bindings
sema(bs, inp) ==
  LET e == inp.e
      undeclared == Mentions(e) \ DOMAIN bs
  IN IF e.k = "bad" THEN Err("Parse", "")
     ELSE IF undeclared # {}
       THEN Err("UndefinedBinding", CHOOSE n \in undeclared : TRUE)
     ELSE IF e.k \in {"clone", "tostr"} /\ bs[e.a].type.tag # "Leaf"
       THEN Err("NoMatchingOverload", e.k)
     ELSE IF e.k = "ref" THEN Err("InvalidBorrow", "")
     ELSE IF inp.let # "" /\ ~Unifies(PatternOf(inp), TypeOfExpr(bs, e))
       THEN Err("TypeMismatch", "")
     ELSE Ok(TypeOfExpr(bs, e))

\* the second sema of run_to_string, on the synthesized to_string(&root)
sema_to_string(type) ==
  IF type.tag = "Leaf" THEN Ok(Leaf("string"))
  ELSE Err("NoMatchingOverload", "to_string")

(***************************************************************************)
(* The driver's internal binding map Map<ASTID, vector<AsyncValue>>: the   *)
(* key is the AST node of the defining pattern, a global that prepare_ast  *)
(* added for a binding passed in, or the pattern of the `let` being run.   *)
(***************************************************************************)
Key(kind, name) == [kind |-> kind, name |-> name]
Entry(name, type, values) == [name |-> name, type |-> type, values |-> values]
EmptyMap == [k \in {} |-> Entry("", NoType, <<>>)]

\* prepare_ast: every binding becomes a global of the AST and its values
\* move into the internal map
prepare_ast(bs) ==
  [k \in {Key("global", n) : n \in DOMAIN bs} |->
     Entry(k.name, bs[k.name].type, bs[k.name].values)]

\* copy_type: the same type, rebuilt in the environment's type graph
copy_type(type) == type

\* The orders in which the unordered internal map can be walked. What
\* emplace keeps depends only on which of two entries of one name comes
\* first, so one order per choice is enough: the globals first or the
\* pattern first, each group in the order of its names.
RECURSIVE SeqOf(_)
SeqOf(S) ==
  IF S = {} THEN <<>>
  ELSE LET k == CHOOSE k \in S : TRUE IN <<k>> \o SeqOf(S \ {k})

Orders(S) ==
  LET G == {k \in S : k.kind = "global"}
      P == {k \in S : k.kind = "pattern"}
  IN IF \E g \in G, q \in P : g.name = q.name
     THEN {SeqOf(G) \o SeqOf(P), SeqOf(P) \o SeqOf(G)}
     ELSE {SeqOf(G) \o SeqOf(P)}

\* to_str_bindings: walks the internal map and emplaces each entry under
\* its name; emplace keeps the entry that is already there
RECURSIVE to_str_bindings_from(_, _, _, _)
to_str_bindings_from(m, order, k, acc) ==
  IF k > Len(order) THEN acc
  ELSE LET en == m[order[k]]
       IN to_str_bindings_from(m, order, k + 1,
            IF en.name \in DOMAIN acc THEN acc
            ELSE acc @@ (en.name :> Binding(copy_type(en.type), en.values)))

to_str_bindings(m, order) == to_str_bindings_from(m, order, 1, NoBindings)

\* the types to_str_bindings copies into the environment's type graph
CopiedTypes(m) == {copy_type(m[k].type) : k \in DOMAIN m}

RECURSIVE BorrowAll(_, _)
BorrowAll(cs, cseq) ==
  IF cseq = <<>> THEN cs ELSE BorrowAll(Borrow(cs, Head(cseq)), Tail(cseq))

(***************************************************************************)
(* run_function: borrows the captured borrows, copies or takes the         *)
(* captured values, and hands the graph to execute. A slot is one value    *)
(* of the graph's result and says where it comes from.                     *)
(***************************************************************************)
Slot(src, fn, in, v) == [src |-> src, fn |-> fn, in |-> in, v |-> v]

\* the one element of a singleton: The({f(x) : x \in {e}}) is f(e) with e
\* worked out once
The(S) == CHOOSE x \in S : TRUE


SlotsOfAtom(m, a) ==
  LET g == Key("global", a.a)
  IN CASE a.k \in {"lit", "fn"} -> <<Slot("lit", "", 0, a.v)>>
       [] a.k = "id" /\ is_binding_copyable(m[g].type) ->
            [i \in 1..Len(m[g].values) |-> Slot("task", "copy", m[g].values[i], NoVal)]
       [] a.k = "id" ->
            [i \in 1..Len(m[g].values) |-> Slot("take", "", m[g].values[i], NoVal)]
       [] a.k \in {"clone", "tostr"} ->
            <<Slot("task", a.k, m[g].values[1], NoVal)>>
       [] OTHER -> <<>>

SlotsOf(m, e, wrap) ==
  IF wrap = "borrow" THEN SlotsOfAtom(m, ToStr(e.a))
  ELSE IF e.k = "pair" THEN SlotsOfAtom(m, Id(e.a)) \o SlotsOfAtom(m, Id(e.b))
  ELSE SlotsOfAtom(m, e)

FreshCount(slots) == Cardinality({j \in 1..Len(slots) : slots[j].src # "take"})

\* the cell that carries slot j's value
OutOf(slots, fr, j) ==
  IF slots[j].src = "take" THEN slots[j].in
  ELSE fr[Cardinality({i \in 1..j : slots[i].src # "take"})]

\* two variants of Erased: every binding the expression mentions is erased,
\* none is
ErasedMentions(m, e, wrap) == Mentions(e)
ErasedNone(m, e, wrap) == {}

\* the names whose bindings run_function erases: captured by value and not
\* copyable
Erased(m, e, wrap) ==
  IF wrap = "borrow" THEN {}
  ELSE {n \in ValueUses(e) : ~is_binding_copyable(m[Key("global", n)].type)}

\* two variants of run_function_erase: nothing is erased, everything is
run_function_keep(m, e, wrap) == m
run_function_clear(m, e, wrap) == EmptyMap

\* run_function: the internal map without the bindings taken by value
run_function_erase(m, e, wrap) ==
  [k \in {j \in DOMAIN m : j.name \notin Erased(m, e, wrap)} |-> m[k]]

\* a variant of captured_borrows that borrows nothing
captured_none(slots) == <<>>

\* the futures run_function borrows: one borrow(v) for every captured
\* borrow and for every copied value
captured_borrows(slots) ==
  LET ins == [j \in 1..Len(slots) |-> slots[j].in]
  IN SelectSeq(ins, LAMBDA c : \E j \in 1..Len(slots) :
                                 slots[j].src = "task" /\ slots[j].in = c)

\* how many new promise/future pairs the call makes
NeedCells(m, inp, wrap, toStr) ==
  FreshCount(SlotsOf(m, inp.e, wrap))
  + (IF wrap = "value" THEN 1 ELSE 0)
  + (IF toStr /\ inp.let # "" THEN 1 ELSE 0)

run_function(m, cs, e, wrap) ==
  The({The({The({
    LET J == 1..Len(slots)
        T == {j \in J : slots[j].src = "task"}
        n == Len(fr)
        vals == [j \in J |-> OutOf(slots, fr, j)]
        ts == {Task(slots[j].fn, <<In(slots[j].in, "borrow")>>, OutOf(slots, fr, j)) : j \in T}
    IN IF wrap = "value"
       THEN \* to_string(&root): the root's value is borrowed inside the graph
            [values |-> <<fr[n]>>,
             bindings |-> run_function_erase(m, e, wrap),
             cells |-> Borrow([cs2 EXCEPT ![fr[n]] = Cell("pending", NoVal, 0)], vals[1]),
             tasks |-> ts \cup {Task("tostr", <<In(vals[1], "borrow")>>, fr[n])}]
       ELSE [values |-> vals,
             bindings |-> run_function_erase(m, e, wrap),
             cells |-> cs2,
             tasks |-> ts]
    \* borrow(v) for every captured borrow and every copied value, on the
    \* promise/future pairs of the graph
    : cs2 \in {BorrowAll(
        [c \in DOMAIN cs |->
           IF \E j \in 1..Len(slots) : slots[j].src = "lit" /\ OutOf(slots, fr, j) = c
             THEN Cell("ready",
                       slots[CHOOSE j \in 1..Len(slots) :
                               slots[j].src = "lit" /\ OutOf(slots, fr, j) = c].v, 0)
           ELSE IF \E j \in 1..Len(slots) : slots[j].src = "task" /\ OutOf(slots, fr, j) = c
             THEN Cell("pending", NoVal, 0)
           ELSE cs[c]],
        captured_borrows(slots))} })
    : fr \in {Fresh(cs, FreshCount(slots) + (IF wrap = "value" THEN 1 ELSE 0))} })
    : slots \in {SlotsOf(m, e, wrap)} })

\* two variants of block: the first values whatever the offset, one value
\* whatever the size
block_at_start(values, offset, size) == SubSeq(values, 1, size)
block_of_one(values, offset, size) == SubSeq(values, offset + 1, offset + 1)

\* std::vector<AsyncValue>(values.begin() + offset,
\*                         values.begin() + offset + size)
block(values, offset, size) == SubSeq(values, offset + 1, offset + size)

\* assign_values: walks the leaves of the pattern with a running offset;
\* an identifier gets the size_of(type) values at the offset, emplaced
\* under the pattern's key, and every leaf moves the offset on by its size
RECURSIVE assign_values_from(_, _, _, _, _)
assign_values_from(m, values, leaves, i, offset) ==
  IF i > Len(leaves) THEN [bindings |-> m, offset |-> offset]
  ELSE LET size == size_of(leaves[i].type)
           k == Key("pattern", leaves[i].name)
       IN assign_values_from(
            IF leaves[i].tag = "ident" /\ k \notin DOMAIN m
            THEN m @@ (k :> Entry(leaves[i].name, leaves[i].type,
                                  block(values, offset, size)))
            ELSE m,
            values, leaves, i + 1, offset + size)

assign_values(m, values, leaves) ==
  assign_values_from(m, values, leaves, 1, 0).bindings

\* run_or_assign: the result of an expression goes to the caller, the
\* result of an assignment into the internal map
run_or_assign(m, cs, inp, type, wrap) ==
  The({IF inp.let = ""
       THEN [result |-> Binding(copy_type(IF wrap = "none" THEN type ELSE Leaf("string")), r.values),
             bindings |-> r.bindings, cells |-> r.cells, tasks |-> r.tasks]
       ELSE [result |-> Binding(copy_type(Unit), <<>>),
             bindings |-> assign_values(r.bindings, r.values,
                                        leaf_ids(PatternOf(inp), type)),
             cells |-> r.cells, tasks |-> r.tasks]
       : r \in {run_function(m, cs, inp.e, wrap)}})

(***************************************************************************)
(* Dropping: a future nobody owns any more is destroyed. A cell stays      *)
(* while a binding or the caller's result holds it, while a share is out,  *)
(* and while a task reads from it or is to send to it.                     *)
(***************************************************************************)
Sweep(cs, owned, ts) ==
  [c \in DOMAIN cs |->
     IF /\ cs[c].st # "free"
        /\ c \notin owned
        /\ cs[c].shares = 0
        /\ \A t \in ts : t.out # c /\ c \notin InCells(t)
     THEN FreeCell ELSE cs[c]]

(***************************************************************************)
(* The environment. The AST is kept as its list of globals, the program    *)
(* as its list of entries, the type graph as the set of types in it.       *)
(***************************************************************************)
Global(name, type) == [name |-> name, type |-> type]

\* create_env_data over a registry with clone and to_string
create_env_data ==
  [src |-> <<"#bindings", "#scripts", "to_string", "clone", "to_string", "#builtins">>,
   ast |-> <<Global("clone", FnT), Global("to_string", FnT)>>,
   tg |-> {Unit, Leaf("i32"), Leaf("string"), FnT},
   program |-> <<"clone", "to_string">>,
   fns |-> {<<1, 1>>, <<2, 2>>},
   parsed_roots |-> <<>>]

NoCall == [op |-> "none", inp |-> Input("", Bad), ok |-> TRUE, err |-> "", name |-> "",
           res |-> <<>>, rtype |-> NoType, wrap |-> "none"]

Init ==
  /\ env = create_env_data
  /\ bindings = NoBindings
  /\ pc = "idle"
  /\ last = NoCall
  /\ exMode \in {"seq", "task"}
  /\ cells = [c \in 1..MaxCells |-> FreeCell]
  /\ tasks = {}

(***************************************************************************)
(* run / run_to_string. The call prepares the AST, runs sema, submits the  *)
(* graph and computes the binding map it returns; with the sequential      *)
(* executor the submitted tasks run inside the call.                       *)
(***************************************************************************)
OpName(toStr) == IF toStr THEN "run_to_string" ELSE "run"

\* a variant of map_error that returns no bindings with the errors
map_error_drop(bs) == NoBindings

\* the map_error of run: the errors are put in context, the bindings are
\* handed on as they are
map_error(bs) == bs

RunWith(inp, toStr, byBorrow, maxTasks) ==
  /\ pc = "idle"
  /\ Cardinality(tasks) < maxTasks
  /\ \E m0 \in {prepare_ast(bindings)} :
     \E s1 \in {sema(bindings, inp)} :
     \* the caller has let go of the previous result
     \E cs0 \in {Sweep(cells, CellsOf(bindings), tasks)} :
     LET isExpr == inp.let = ""
         s == IF s1.ok /\ toStr /\ isExpr THEN sema_to_string(s1.type) ELSE s1
         wrap == IF toStr /\ isExpr
                 THEN (IF byBorrow /\ inp.e.k = "id" THEN "borrow" ELSE "value")
                 ELSE "none"
     IN IF ~s.ok
        THEN \E order \in Orders(DOMAIN m0) :
               /\ bindings' = map_error(to_str_bindings(m0, order))
               /\ env' = [env EXCEPT !.tg = @ \cup CopiedTypes(m0)]
               /\ last' = [op |-> OpName(toStr), inp |-> inp, ok |-> FALSE,
                           err |-> s.err, name |-> s.name, res |-> <<>>,
                           rtype |-> NoType, wrap |-> wrap]
               /\ cells' = Sweep(cs0, CellsOf(bindings'), tasks)
               /\ tasks' = tasks
               /\ pc' = "running"
        ELSE /\ NeedCells(m0, inp, wrap, toStr) <= Cardinality(FreeIds(cs0))
             /\ \E r \in {run_or_assign(m0, cs0, inp, s1.type, wrap)} :
                \* run_to_string of an assignment returns Future(Any(""))
                \E e0 \in {IF toStr /\ ~isExpr THEN Fresh(r.cells, 1) ELSE <<>>} :
                \E order \in Orders(DOMAIN r.bindings) :
                  LET cs3 == IF e0 = <<>> THEN r.cells
                             ELSE NewReady(r.cells, e0[1], StrVal(""))
                      res == IF e0 = <<>> THEN r.result.values ELSE e0
                  IN /\ bindings' = to_str_bindings(r.bindings, order)
                     /\ env' = [env EXCEPT !.tg = @ \cup CopiedTypes(r.bindings)
                                                     \cup {r.result.type}]
                     /\ last' = [op |-> OpName(toStr), inp |-> inp, ok |-> TRUE,
                                 err |-> "", name |-> "", res |-> res,
                                 rtype |-> IF toStr THEN Leaf("string") ELSE r.result.type,
                                 wrap |-> wrap]
                     /\ tasks' = tasks \cup r.tasks
                     /\ cells' = Sweep(cs3, CellsOf(bindings') \cup SeqRange(res), tasks')
                     /\ pc' = "running"
  /\ UNCHANGED exMode

RunCall(inp, toStr, byBorrow) == RunWith(inp, toStr, byBorrow, MaxTasks)

\* run returns; the sequential executor has run every task by then. What
\* stays of the call is the result the caller holds, if there is one.
RunReturn ==
  /\ pc = "running"
  /\ exMode = "seq" => tasks = {}
  /\ pc' = "idle"
  /\ last' = IF last.res = <<>> THEN NoCall ELSE last
  /\ UNCHANGED <<env, bindings, exMode, cells, tasks>>

(***************************************************************************)
(* The executor. A task starts once its inputs are there: a borrowed       *)
(* input has its value, a moved input is resolved with no share out.       *)
(***************************************************************************)
Running == {t \in tasks : t.st = "running"}
Threads == IF exMode = "seq" THEN 1 ELSE NThreads

\* a variant of InputReady that lets a task start at once
InputReadyAlways(cs, i) == TRUE

InputReady(cs, i) ==
  IF i.by = "borrow" THEN cs[i.c].st \in {"lent", "ready"} ELSE cs[i.c].st = "ready"

RECURSIVE TakeAll(_, _)
TakeAll(cs, S) ==
  IF S = {} THEN cs
  ELSE LET c == CHOOSE c \in S : TRUE IN TakeAll(Take(cs, c), S \ {c})

\* the worker picks the task up; what it is passed by move leaves its
\* future now
TaskStart(t) ==
  /\ t \in tasks /\ t.st = "queued"
  /\ Cardinality(Running) < Threads
  /\ \A k \in 1..Len(t.ins) : InputReady(cells, t.ins[k])
  /\ tasks' = (tasks \ {t}) \cup
       {[t EXCEPT !.st = "running",
                  !.vals = [k \in 1..Len(t.ins) |->
                              IF t.ins[k].by = "move" THEN ReadVal(cells, t.ins[k].c)
                              ELSE NoVal]]}
  /\ cells' = TakeAll(cells, MovedBy(t))
  /\ UNCHANGED <<env, bindings, pc, last, exMode>>

RECURSIVE ReleaseAll(_, _)
ReleaseAll(cs, S) ==
  IF S = {} THEN cs
  ELSE LET c == CHOOSE c \in S : TRUE IN ReleaseAll(Release(cs, c), S \ {c})

TaskFinish(t) ==
  /\ t \in tasks /\ t.st = "running"
  /\ LET v == Apply(t.fn, [k \in 1..Len(t.ins) |->
                             IF t.ins[k].by = "move" THEN t.vals[k]
                             ELSE ReadVal(cells, t.ins[k].c)])
         cs1 == ReleaseAll(Send(cells, t.out, v), BorrowedBy(t))
     IN /\ tasks' = tasks \ {t}
        /\ cells' = Sweep(cs1, CellsOf(bindings) \cup SeqRange(last.res), tasks')
  /\ UNCHANGED <<env, bindings, pc, last, exMode>>

Next ==
  \/ \E inp \in Inputs : RunCall(inp, FALSE, FALSE)
  \/ \E inp \in StrInputs :
       \E byBorrow \in IF inp.let = "" /\ inp.e.k = "id" THEN BOOLEAN ELSE {FALSE} :
         RunCall(inp, TRUE, byBorrow)
  \/ RunReturn
  \/ \E t \in tasks : TaskStart(t)
  \/ \E t \in tasks : TaskFinish(t)

Spec == Init /\ [][Next]_vars

(***************************************************************************)
(* Assignments through patterns: `let` of a literal, of a binding or of a  *)
(* tuple of two different bindings and of a borrow, all of move-only       *)
(* values, to a pattern of up to two levels with no name twice, on the     *)
(* sequential executor.                                                    *)
(***************************************************************************)
MaxLetCells == 3

PatAtoms == {PIdent(n) : n \in Names} \cup {PWild}
PatPairs == PatAtoms \cup {PTuple(<<>>)} \cup {PTuple(<<a, b>>) : a \in PatAtoms, b \in PatAtoms}
PatNested ==
  {PTuple(<<PIdent("x"), PTuple(<<PIdent("y"), PWild>>)>>),
   PTuple(<<PTuple(<<PWild, PIdent("x")>>), PIdent("y")>>),
   PTuple(<<PWild, PTuple(<<PIdent("x"), PIdent("y")>>)>>),
   PTuple(<<PTuple(<<PIdent("y"), PWild>>), PWild>>)}
Patterns == {p \in PatPairs \cup PatNested : IdentCount(p) = Cardinality(PatNames(p))}

AssignExprs ==
  {Lit(v) : v \in {l \in Lits : l.ty \notin copy_types}} \cup
  {Id(n) : n \in Names} \cup {Ref(n) : n \in Names} \cup
  {Pair(n[1], n[2]) : n \in {q \in Names \X Names : q[1] # q[2]}}

AssignInputs == {PatInput(p, e) : p \in Patterns, e \in AssignExprs}

InitAssign ==
  /\ env = create_env_data
  /\ bindings = NoBindings
  /\ pc = "idle"
  /\ last = NoCall
  /\ exMode = "seq"
  /\ cells = [c \in 1..MaxLetCells |-> FreeCell]
  /\ tasks = {}

\* no value is copied, so no call leaves a task behind
NextAssign ==
  \/ \E inp \in AssignInputs : RunCall(inp, FALSE, FALSE)
  \/ RunReturn

SpecAssign == InitAssign /\ [][NextAssign]_vars

(***************************************************************************)
(* sema on its own: the state is the input a step of sema is given, then   *)
(* what the step made of it.                                               *)
(***************************************************************************)
SemaInit(inputs) ==
  /\ env = create_env_data
  /\ bindings = NoBindings
  /\ pc = "idle"
  /\ last \in inputs
  /\ exMode = "seq"
  /\ cells = [c \in 1..MaxCells |-> FreeCell]
  /\ tasks = {}

(***************************************************************************)
(* Overload resolution. env.functions gives a name its overloads, native   *)
(* functions and bindings alike; a use is an identifier with the type the  *)
(* type checker deduced for it.                                            *)
(***************************************************************************)
\* unification with Floating as the one unknown
RECURSIVE unify_types(_, _)
unify_types(t, u) ==
  \/ t.tag = "Floating"
  \/ u.tag = "Floating"
  \/ /\ t.tag = u.tag
     /\ t.id = u.id
     /\ Len(t.kids) = Len(u.kids)
     /\ \A k \in 1..Len(t.kids) : unify_types(t.kids[k], u.kids[k])

Use(name, type) == [name |-> name, type |-> type]

\* the overloads of a name whose type unifies with the type of the use
matching(fs, type) ==
  SelectSeq([i \in 1..Len(fs) |-> i], LAMBDA i : unify_types(fs[i], type))

\* what overload_resolution makes of one use
resolve_use(fns, use) ==
  IF use.name \notin DOMAIN fns
  THEN [use |-> use, err |-> "use of undeclared binding", overload |-> 0, notes |-> <<>>]
  ELSE LET fs == fns[use.name]
           overloads == matching(fs, use.type)
       IN IF Len(overloads) = 1
          THEN [use |-> use, err |-> "", overload |-> overloads[1], notes |-> <<>>]
          ELSE IF overloads = <<>>
          THEN [use |-> use, err |-> "no matching overload found", overload |-> 0,
                notes |-> fs]
          ELSE [use |-> use, err |-> "function call is ambiguous", overload |-> 0,
                notes |-> [k \in 1..Len(overloads) |-> fs[overloads[k]]]]

\* overload_resolution: every use is resolved; with no overload error the
\* errors are those of check_fully_resolved
overload_resolution(fns, uses, unresolved) ==
  LET rs == [k \in 1..Len(uses) |-> resolve_use(fns, uses[k])]
      overload_errors == SelectSeq(rs, LAMBDA r : r.err # "")
      errors == IF overload_errors # <<>> THEN overload_errors
                ELSE IF unresolved THEN <<[use |-> Use("", NoType), err |-> "unresolved",
                                          overload |-> 0, notes |-> <<>>]>>
                ELSE <<>>
  IN [ok |-> errors = <<>>, errors |-> errors,
      all_overloads |-> SelectSeq(rs, LAMBDA r : r.err = "")]

OverloadTypes == {Leaf("i32"), FnT, FnOf(Leaf("i32"), Leaf("i32"))}
UseTypes == OverloadTypes \cup {Floating, FnOf(Floating, Leaf("i32"))}
Uses == {Use(n, t) : n \in {"f", "g"}, t \in UseTypes}

Functions ==
  LET F == {<<>>} \cup {<<a>> : a \in OverloadTypes}
             \cup {<<a, b>> : a \in OverloadTypes, b \in OverloadTypes}
      G == {<<>>, <<Leaf("i32")>>}
  IN {[n \in {m \in {"f", "g"} : (IF m = "f" THEN f ELSE g) # <<>>} |->
         IF n = "f" THEN f ELSE g] : f \in F, g \in G}

OverloadInputs ==
  {[op |-> "checked", fns |-> fns, uses |-> uses, unresolved |-> u] :
     fns \in Functions,
     uses \in {<<a>> : a \in Uses} \cup {<<a, b>> : a \in Uses, b \in Uses},
     u \in BOOLEAN}

\* create_call_graph_data: every identifier that has a global to refer to
\* is resolved among the globals of its name (ident_graph.fanout(ident));
\* fn is the global whose definition the identifier is in, and the notes of
\* an error are the types of ident_graph.fanout(fn), the identifiers that
\* refer to fn
fanout_of_fn(uses, fn) == SelectSeq(uses, LAMBDA u : u.name = fn)

call_site(fns, uses, u) ==
  LET fs == fns[u.name]
      overloads == matching(fs, u.type)
      fo == fanout_of_fn(uses, u.root)
      notes == [k \in 1..Len(fo) |-> fo[k].type]
  IN IF Len(overloads) = 1
     THEN [use |-> u, err |-> "", overload |-> overloads[1], notes |-> <<>>]
     ELSE IF overloads = <<>>
     THEN [use |-> u, err |-> "no matching overload found", overload |-> 0, notes |-> notes]
     ELSE [use |-> u, err |-> "function call is ambiguous", overload |-> 0, notes |-> notes]

create_call_graph_data(fns, uses) ==
  LET unresolved_calls == SelectSeq(uses, LAMBDA u : u.name \in DOMAIN fns)
      rs == [k \in 1..Len(unresolved_calls) |-> call_site(fns, uses, unresolved_calls[k])]
      errors == SelectSeq(rs, LAMBDA r : r.err # "")
  IN [ok |-> errors = <<>>, errors |-> errors,
      all_overloads |-> SelectSeq(rs, LAMBDA r : r.err = "")]

\* an identifier in the definition of the global `root`
Call(name, type, root) == [name |-> name, type |-> type, root |-> root]

\* by then the type of every identifier is concrete
CallInputs ==
  {[op |-> "propagated", fns |-> fns, uses |-> uses] :
     fns \in {f \in Functions : DOMAIN f = {"f", "g"}},
     uses \in {<<a>> : a \in {Call(n, t, "g") : n \in {"f", "g"}, t \in OverloadTypes}}
            \cup {<<a, b>> : a \in {Call("f", t, "g") : t \in OverloadTypes},
                            b \in {Call("g", t, "f") : t \in OverloadTypes}}}

CreateCallGraphData ==
  /\ pc = "idle"
  /\ last.op = "propagated"
  /\ last' = [op |-> "create_call_graph_data", fns |-> last.fns, uses |-> last.uses,
              out |-> create_call_graph_data(last.fns, last.uses)]
  /\ pc' = "done"
  /\ UNCHANGED <<env, bindings, exMode, cells, tasks>>

OverloadResolution ==
  /\ pc = "idle"
  /\ last.op = "checked"
  /\ last' = [op |-> "overload_resolution", fns |-> last.fns, uses |-> last.uses,
              out |-> overload_resolution(last.fns, last.uses, last.unresolved)]
  /\ pc' = "done"
  /\ UNCHANGED <<env, bindings, exMode, cells, tasks>>

(***************************************************************************)
(* parse_scripts. A script file is kept as the functions it defines and    *)
(* the stage at which it is rejected, if any.                              *)
(***************************************************************************)
File(fns, err) == [fns |-> fns, err |-> err]

Files ==
  {File(<<"f">>, "none"), File(<<"g">>, "none"), File(<<"f", "g">>, "none"),
   File(<<"f">>, "parse"), File(<<"g">>, "type"), File(<<"f">>, "sema"),
   File(<<"g">>, "read"), File(<<"g">>, "overload")}

Batches == {<<a>> : a \in Files} \cup {<<a, b>> : a \in Files, b \in Files}

RECURSIVE Globals(_)
Globals(names) ==
  IF names = <<>> THEN <<>>
  ELSE <<Global(Head(names), FnT)>> \o Globals(Tail(names))

\* parse: appends the nodes of a file to the AST it is given
parse(ast, file) ==
  IF file.err = "parse" THEN [ok |-> FALSE, ast |-> ast, roots |-> <<>>]
  ELSE [ok |-> TRUE, ast |-> ast \o Globals(file.fns), roots |-> file.fns]

\* a variant of accumulate_result that stops at the first file that fails
RECURSIVE accumulate_first(_, _, _)
accumulate_first(acc, files, k) ==
  IF k > Len(files) \/ acc.errs # <<>> THEN acc
  ELSE LET p == parse(acc.ast, files[k])
       IN accumulate_first(
            [errs |-> IF p.ok THEN acc.errs ELSE Append(acc.errs, <<k, "Parse">>),
             ast |-> p.ast,
             roots |-> acc.roots \o p.roots],
            files, k + 1)

\* accumulate_result over the files: every file is parsed, the errors of
\* all of them are collected
RECURSIVE accumulate_result(_, _, _)
accumulate_result(acc, files, k) ==
  IF k > Len(files) THEN acc
  ELSE LET p == parse(acc.ast, files[k])
       IN accumulate_result(
            [errs |-> IF p.ok THEN acc.errs ELSE Append(acc.errs, <<k, "Parse">>),
             ast |-> p.ast,
             roots |-> acc.roots \o p.roots],
            files, k + 1)

\* the errors a later stage reports over the whole batch
StageErrors(files, stage, kind) ==
  LET RECURSIVE Collect(_)
      Collect(k) ==
        IF k > Len(files) THEN <<>>
        ELSE (IF files[k].err = stage THEN <<(<<k, kind>>)>> ELSE <<>>) \o Collect(k + 1)
  IN Collect(1)

\* generate_fns: a placeholder per new function, then its graph is set
generate_fns(prog, names) ==
  [program |-> prog \o names,
   fns |-> [i \in 1..Len(names) |-> <<names[i], Len(prog) + i>>]]

\* add_fn: the name goes to the source buffer, the function becomes a
\* global of the AST, a key of the function table and a root
add_fn(e, name, type, inst) ==
  [e EXCEPT !.src = Append(@, name),
            !.ast = Append(@, Global(name, type)),
            !.tg = @ \cup {copy_type(type)},
            !.fns = @ \cup {<<Len(e.ast) + 1, inst>>},
            !.parsed_roots = Append(@, Len(e.ast) + 1)]

RECURSIVE add_fns(_, _, _)
add_fns(e, gen, k) ==
  IF k > Len(gen) THEN e
  ELSE add_fns(add_fn(e, gen[k][1], FnT, gen[k][2]), gen, k + 1)

\* the map of parse_scripts: runs on success only
register(e, names) ==
  LET g == generate_fns(e.program, names)
  IN add_fns([e EXCEPT !.program = g.program], g.fns, 1)

\* a variant of map_state that keeps the AST the batch was parsed into
keep_parsed_ast(ast, e) == [e EXCEPT !.ast = ast]

\* the map_state of parse_scripts: the AST the batch was parsed into is
\* dropped, the environment is what is returned
map_state(ast, e) == e

parse_scripts(e, files) ==
  LET acc == accumulate_result([errs |-> <<>>, ast |-> e.ast, roots |-> <<>>], files, 1)
      terrs == StageErrors(files, "type", "UndefinedType")
      serrs == StageErrors(files, "sema", "TypeMismatch")
      oerrs == StageErrors(files, "overload", "NoMatchingOverload")
      errs == IF acc.errs # <<>> THEN acc.errs
              ELSE IF terrs # <<>> THEN terrs
              ELSE IF serrs # <<>> THEN serrs
              ELSE oerrs
  IN IF errs # <<>>
     THEN [ok |-> FALSE, errs |-> errs, env |-> map_state(acc.ast, e)]
     ELSE [ok |-> TRUE, errs |-> <<>>, env |-> map_state(acc.ast, register(e, acc.roots))]

\* the functions a batch defines
RECURSIVE FnsOf(_)
FnsOf(files) ==
  IF files = <<>> THEN <<>> ELSE Head(files).fns \o FnsOf(Tail(files))

\* parse_scripts of the repl: the files are read first, and with a file
\* that cannot be read nothing is parsed
repl_parse_scripts(e, files) ==
  LET errors == StageErrors(files, "read", "IO")
  IN IF errors = <<>> THEN parse_scripts(e, files)
     ELSE [ok |-> FALSE, errs |-> errors, env |-> e]

ParseScripts(files) ==
  /\ pc = "idle"
  /\ Len(env.parsed_roots) + Len(FnsOf(files)) <= MaxFns
  /\ LET r == repl_parse_scripts(env, files)
     IN /\ env' = r.env
        /\ last' = [op |-> "parse_scripts", files |-> files, ok |-> r.ok, errs |-> r.errs]
  /\ UNCHANGED <<bindings, pc, exMode, cells, tasks>>

NextScripts == \E files \in Batches : ParseScripts(files)

SpecScripts == Init /\ [][NextScripts]_vars

(***************************************************************************)
(* The identifier graph. A node of the AST is its tag, its source text     *)
(* and its children; its ASTID is the path that leads to it from the       *)
(* roots. Patterns are the nodes PIdent, PWild and PTuple.                 *)
(***************************************************************************)
Ast(tag, name, kids) == [tag |-> tag, name |-> name, kids |-> kids]
ExprIdent(n) == Ast("ExprIdent", n, <<>>)
ExprLiteral == Ast("ExprLiteral", "1", <<>>)
ExprTuple(ks) == Ast("ExprTuple", "", ks)
ExprBorrow(e) == Ast("ExprBorrow", "", <<e>>)
Assignment(pat, e) == Ast("Assignment", "", <<pat, e>>)
ExprWith(assign, body) == Ast("ExprWith", "", <<assign, body>>)
FnNode(pat, body) == Ast("Fn", "", <<pat, body>>)
GlobalNode(n, value) == Ast("Global", "", <<PIdent(n), value>>)
NativeFn == Ast("NativeFn", "", <<>>)

RECURSIVE NodeAt(_, _)
NodeAt(node, path) ==
  IF path = <<>> THEN node ELSE NodeAt(node.kids[Head(path)], Tail(path))

\* the ASTIDs of the tree under a node, the node at `id` included
RECURSIVE IdsUnder(_, _)
IdsUnder(node, id) ==
  {id} \cup UNION {IdsUnder(node.kids[k], Append(id, k)) : k \in 1..Len(node.kids)}

\* a variant of topmost: the oldest entry of the stack
bottommost(hits) == CHOOSE k \in hits : \A j \in hits : k <= j

\* std::find_if(ctx.stack.rbegin(), ctx.stack.rend(), ...): the newest
\* entry of the stack among those of the identifier's text
topmost(hits) == CHOOSE k \in hits : \A j \in hits : k >= j

\* a variant of push_edge: the pattern does not learn of its use
push_edge_one_way(ctx, a, b) == [ctx EXCEPT !.fanouts = Append(@, <<a, b>>)]

\* ctx.fanouts[a].push_back(b); ctx.fanouts[b].push_back(a)
push_edge(ctx, a, b) == [ctx EXCEPT !.fanouts = @ \o <<<<a, b>>, <<b, a>>>>]

RECURSIVE push_globals(_, _, _, _)
push_globals(ctx, id, ident, k) ==
  IF k > Len(ctx.globals) THEN ctx
  ELSE push_globals(IF ctx.globals[k].name = ident
                    THEN push_edge(ctx, id, ctx.globals[k].id) ELSE ctx,
                    id, ident, k + 1)

\* a variant of scope_exit: the patterns of the scope stay on the stack
scope_keep(stack, original_size) == stack

\* ctx.stack.erase(ctx.stack.begin() + original_size, ctx.stack.end())
scope_exit(stack, original_size) == SubSeq(stack, 1, original_size)

RECURSIVE calculate_ident_graph_at(_, _, _)
RECURSIVE calculate_ident_graph_kids(_, _, _, _)
calculate_ident_graph_kids(ctx, node, id, k) ==
  IF k > Len(node.kids) THEN ctx
  ELSE calculate_ident_graph_kids(
         calculate_ident_graph_at(ctx, node.kids[k], Append(id, k)), node, id, k + 1)

calculate_ident_graph_at(ctx, node, id) ==
  CASE node.tag = "ident" ->
         [ctx EXCEPT !.stack = Append(@, [name |-> node.name, id |-> id])]
    [] node.tag \in {"Fn", "ExprWith"} ->
         [calculate_ident_graph_kids(ctx, node, id, 1)
            EXCEPT !.stack = scope_exit(@, Len(ctx.stack))]
    [] node.tag = "ExprIdent" ->
         LET hits == {k \in 1..Len(ctx.stack) : ctx.stack[k].name = node.name}
         IN IF hits # {}
            THEN push_edge(ctx, id, ctx.stack[topmost(hits)].id)
            ELSE push_globals(ctx, id, node.name, 1)
    [] node.tag = "Assignment" ->
         \* the expression before the pattern
         calculate_ident_graph_at(
           calculate_ident_graph_at(ctx, node.kids[2], Append(id, 2)),
           node.kids[1], Append(id, 1))
    [] node.tag = "Global" ->
         calculate_ident_graph_at(ctx, node.kids[2], Append(id, 2))
    [] OTHER -> calculate_ident_graph_kids(ctx, node, id, 1)

\* calculate_ident_graph: the globals are collected up front, then every
\* root is walked with the one context
RECURSIVE calculate_ident_graph_roots(_, _, _)
calculate_ident_graph_roots(ctx, roots, k) ==
  IF k > Len(roots) THEN ctx
  ELSE calculate_ident_graph_roots(
         calculate_ident_graph_at(ctx, roots[k], <<k>>), roots, k + 1)

calculate_ident_graph(roots) ==
  LET G == SelectSeq([k \in 1..Len(roots) |-> k], LAMBDA k : roots[k].tag = "Global")
      ctx == [fanouts |-> <<>>,
              globals |-> [j \in 1..Len(G) |->
                             [name |-> roots[G[j]].kids[1].name, id |-> <<G[j], 1>>]],
              stack |-> <<>>]
  IN calculate_ident_graph_roots(ctx, roots, 1).fanouts

\* Graph<ASTID>::fanout
fanout(graph, id) ==
  LET es == SelectSeq(graph, LAMBDA e : e[1] = id)
  IN [k \in 1..Len(es) |-> es[k][2]]

\* the modules checked: globals named a and b, native or defined by a
\* function whose body has up to two nested scopes
AstNames == {"a", "b"}
AstAtoms == {ExprIdent(n) : n \in AstNames} \cup {ExprLiteral}
AstPatterns ==
  {PIdent(n) : n \in AstNames} \cup {PWild, PTuple(<<PIdent("a"), PIdent("b")>>)}
AstInner ==
  AstAtoms \cup {ExprBorrow(ExprIdent("a")), ExprTuple(<<ExprIdent("a"), ExprIdent("a")>>),
                ExprTuple(<<ExprIdent("a"), ExprIdent("b")>>)}
  \cup {ExprWith(Assignment(p, e), ExprIdent(n)) :
          p \in AstPatterns, e \in AstAtoms, n \in AstNames}
AstBodies ==
  AstInner \cup {ExprWith(Assignment(PIdent(n), e), b) :
                   n \in AstNames, e \in AstInner, b \in AstInner}
AstGlobals ==
  {<<>>, <<GlobalNode("a", NativeFn)>>,
   <<GlobalNode("a", NativeFn), GlobalNode("a", NativeFn)>>,
   <<GlobalNode("a", NativeFn), GlobalNode("b", NativeFn)>>}
AstFns == {FnNode(p, b) : p \in {PIdent("a"), PTuple(<<PIdent("a"), PIdent("b")>>)}, b \in AstBodies}

IdentInputs ==
  {[op |-> "parsed", roots |-> Append(g, GlobalNode("f", f))] : g \in AstGlobals, f \in AstFns}

CalculateIdentGraph ==
  /\ pc = "idle"
  /\ last.op = "parsed"
  /\ last' = [op |-> "calculate_ident_graph", roots |-> last.roots,
              out |-> calculate_ident_graph(last.roots)]
  /\ pc' = "done"
  /\ UNCHANGED <<env, bindings, exMode, cells, tasks>>

(***************************************************************************)
(* Elaboration of a script that defines one function f. The names in       *)
(* `move_only` are those whose patterns have a type that is not copyable.  *)
(***************************************************************************)
\* the identifiers that take the pattern by value: those of its fan-out
\* that are not the operand of an ExprBorrow
by_value_uses(roots, ig, pat) ==
  SelectSeq(fanout(ig, pat),
            LAMBDA u : NodeAt(roots[u[1]], SubSeq(u, 2, Len(u) - 1)).tag # "ExprBorrow")

\* the patterns of the functions: every PatternIdent but the names of the
\* globals
LocalPatterns(roots) ==
  UNION {{id \in IdsUnder(roots[r], <<r>>) :
            Len(id) > 2 /\ NodeAt(roots[r], Tail(id)).tag = "ident"} : r \in 1..Len(roots)}

\* "binding 'x' used N times": a pattern of a type that is not copyable
\* taken by value more than once
check_moves(roots, ig, move_only) ==
  {[pattern |-> pat, name |-> NodeAt(roots[pat[1]], Tail(pat)).name,
    times |-> Len(by_value_uses(roots, ig, pat))] :
     pat \in {q \in LocalPatterns(roots) :
                /\ NodeAt(roots[q[1]], Tail(q)).name \in move_only
                /\ Len(by_value_uses(roots, ig, q)) > 1}}

\* parse_scripts of the one script: sema, and on success only the graph of
\* f is generated and f is registered
elaborate(e, roots, move_only) ==
  The({IF errs # {}
       THEN [ok |-> FALSE, errs |-> errs, env |-> map_state(e.ast, e)]
       ELSE [ok |-> TRUE, errs |-> {}, env |-> map_state(e.ast, register(e, <<"f">>))]
       : errs \in {check_moves(roots, calculate_ident_graph(roots), move_only)}})

ScriptInputs ==
  {[op |-> "script", roots |-> <<GlobalNode("f", f)>>, move_only |-> m] :
     f \in AstFns, m \in {{}, {"a"}, {"a", "b"}}}

Elaborate ==
  /\ pc = "idle"
  /\ last.op = "script"
  /\ \E r \in {elaborate(env, last.roots, last.move_only)} :
       /\ env' = r.env
       /\ last' = [op |-> "elaborate", roots |-> last.roots, move_only |-> last.move_only,
                   ok |-> r.ok, errs |-> r.errs]
  /\ pc' = "done"
  /\ UNCHANGED <<bindings, exMode, cells, tasks>>

(***************************************************************************)
(* generate_fns over the program. An entry of the program is a native      *)
(* function, a graph, a graph bound with values, or a placeholder; an Inst *)
(* is the index of an entry. A function of the batch is its name and the   *)
(* functions its body refers to (the captured values of its graph).        *)
(***************************************************************************)
ProgEntry(tag, fn, graph, values, sets) ==
  [tag |-> tag, fn |-> fn, graph |-> graph, values |-> values, sets |-> sets]

\* Program::placeholder, Program::add, Program::set
placeholder(p) == Append(p, ProgEntry("placeholder", "", 0, <<>>, 0))

add(p, fn) == Append(p, ProgEntry("graph", fn, 0, <<>>, 0))

set(p, inst, fn) == [p EXCEPT ![inst] = ProgEntry("graph", fn, 0, <<>>, @.sets + 1)]

set_bound(p, inst, graph, values) ==
  [p EXCEPT ![inst] = ProgEntry("bound", p[graph].fn, graph, values, @.sets + 1)]

\* the first pass: a placeholder for every function of the batch
RECURSIVE placeholders(_, _, _)
placeholders(st, new_fns, k) ==
  IF k > Len(new_fns) THEN st
  ELSE placeholders(
         [prog |-> placeholder(st.prog),
          fns |-> Append(st.fns, <<new_fns[k].name, Len(st.prog) + 1>>),
          log |-> Append(st.log, <<"placeholder", Len(st.prog) + 1>>)],
         new_fns, k + 1)

\* a variant of find_fn that takes the first function of the batch
find_fn_first(fns, id) == fns[1][2]

\* find_if(fns, pat == id): the Inst of the function of the batch
find_fn(fns, id) ==
  fns[CHOOSE k \in 1..Len(fns) : fns[k][1] = id][2]

\* the value captured for a function the body refers to
captured_value(existing_fns, fns, id) ==
  IF id \in DOMAIN existing_fns THEN existing_fns[id] ELSE find_fn(fns, id)

\* the second pass: every body is lowered and its placeholder is set
RECURSIVE lower_fns(_, _, _, _, _, _)
lower_fns(prog, log, existing_fns, fns, new_fns, k) ==
  IF k > Len(new_fns) THEN [prog |-> prog, fns |-> fns, log |-> log]
  ELSE LET captured_values == new_fns[k].calls
           inst == fns[k][2]
           log1 == Append(log, <<"create_graph", inst>>)
       IN IF captured_values = <<>>
          THEN lower_fns(set(prog, inst, new_fns[k].name),
                         Append(log1, <<"set", inst>>),
                         existing_fns, fns, new_fns, k + 1)
          ELSE lower_fns(
                 set_bound(add(prog, new_fns[k].name), inst, Len(prog) + 1,
                           [j \in 1..Len(captured_values) |->
                              captured_value(existing_fns, fns, captured_values[j])]),
                 Append(log1, <<"set", inst>>),
                 existing_fns, fns, new_fns, k + 1)

generate_fns_program(prog, existing_fns, new_fns) ==
  The({lower_fns(st.prog, st.log, existing_fns, st.fns, new_fns, 1) :
         st \in {placeholders([prog |-> prog, fns |-> <<>>, log |-> <<>>], new_fns, 1)}})

\* the program and the function table of create_env_data
NativeProgram == <<ProgEntry("native", "clone", 0, <<>>, 0), ProgEntry("native", "to_string", 0, <<>>, 0)>>

ExistingFns == [n \in {"clone"} |-> 1]

NewFn(name, calls) == [name |-> name, calls |-> calls]

\* the batches: one to three functions that refer to natives, to each
\* other in either order and to themselves
BodyCalls == {<<>>, <<"f">>, <<"g">>, <<"clone">>, <<"g", "f">>, <<"h">>}

FnBatches ==
  {<<NewFn("f", a)>> : a \in {<<>>, <<"f">>, <<"clone">>}}
  \cup {<<NewFn("f", a), NewFn("g", b)>> : a \in BodyCalls \ {<<"h">>}, b \in BodyCalls \ {<<"h">>}}
  \cup {<<NewFn("f", a), NewFn("g", b), NewFn("h", c)>> :
          a \in {<<"h">>, <<"g">>}, b \in {<<"h">>, <<>>}, c \in {<<"f">>, <<>>}}

GenInputs == {[op |-> "resolved", new_fns |-> b] : b \in FnBatches}

GenerateFns ==
  /\ pc = "idle"
  /\ last.op = "resolved"
  /\ \E r \in {generate_fns_program(NativeProgram, ExistingFns, last.new_fns)} :
       last' = [op |-> "generate_fns", new_fns |-> last.new_fns,
                prog |-> r.prog, fns |-> r.fns, log |-> r.log]
  /\ pc' = "done"
  /\ UNCHANGED <<env, bindings, exMode, cells, tasks>>

InitSema ==
  SemaInit(OverloadInputs \cup CallInputs \cup IdentInputs \cup ScriptInputs \cup GenInputs)

NextSema ==
  \/ OverloadResolution
  \/ CreateCallGraphData
  \/ CalculateIdentGraph
  \/ Elaborate
  \/ GenerateFns

SpecSema == InitSema /\ [][NextSema]_vars

(***************************************************************************)
(* Failure of parse_scripts.                                               *)
(***************************************************************************)

\* C1: when parse_scripts fails, whatever the stage and the file, the
\* environment it returns is the one it was given: same source buffer, AST,
\* type graph, program, function table and roots, so no function of the
\* failing batch is registered.
C1_FailedParseKeepsEnv ==
  [][(last'.op = "parse_scripts" /\ ~last'.ok) => env' = env]_vars

\* a failing batch that defines functions, given to an environment that
\* already has script functions
C1_Witness ==
  /\ last.op = "parse_scripts" /\ ~last.ok
  /\ FnsOf(last.files) # <<>>
  /\ env.parsed_roots # <<>>

(***************************************************************************)
(* Execution of a dataflow graph. A graph has input terms 1..nIn and one   *)
(* term per node after them; an edge names the term a node consumes and    *)
(* how it is passed. The graphs are those of the executor tests.           *)
(***************************************************************************)
Edge(t, by) == [t |-> t, by |-> by]
Node(fn, ins, nout) == [fn |-> fn, ins |-> ins, nout |-> nout]

\* sentinal: take(take(in1)) by move, take(in2) by copy, in2 itself,
\* a borrow of in3 that returns what it sees, in3 itself
sentinal_graph ==
  [name |-> "sentinal", nIn |-> 3, borrowed |-> FALSE, promised |-> FALSE,
   nodes |-> <<Node("take", <<Edge(1, "move")>>, 1),
               Node("take", <<Edge(4, "move")>>, 1),
               Node("take", <<Edge(2, "copy")>>, 1),
               Node("copy", <<Edge(3, "borrow")>>, 1)>>,
   outs |-> <<Edge(5, "move"), Edge(6, "move"), Edge(2, "move"),
              Edge(7, "move"), Edge(3, "move")>>]

\* borrow_fwd: both inputs arrive borrowed; one node takes the first by
\* borrow and by copy and returns nothing
borrow_fwd_graph ==
  [name |-> "borrow_fwd", nIn |-> 2, borrowed |-> TRUE, promised |-> FALSE,
   nodes |-> <<Node("none", <<Edge(1, "borrow"), Edge(1, "copy")>>, 0)>>,
   outs |-> <<>>]

\* timing: every input arrives borrowed and unresolved, one node per
\* input borrows it; the promises are sent after the graph is submitted
timing_graph ==
  [name |-> "timing", nIn |-> 2, borrowed |-> TRUE, promised |-> TRUE,
   nodes |-> <<Node("out", <<Edge(1, "borrow")>>, 1),
               Node("out", <<Edge(2, "borrow")>>, 1)>>,
   outs |-> <<Edge(3, "move"), Edge(4, "move")>>]

\* move_only: one node takes its input by move
move_only_graph ==
  [name |-> "move_only", nIn |-> 1, borrowed |-> FALSE, promised |-> FALSE,
   nodes |-> <<Node("take", <<Edge(1, "move")>>, 1)>>,
   outs |-> <<Edge(2, "move")>>]

Graphs == {sentinal_graph, borrow_fwd_graph, timing_graph, move_only_graph}

GraphInputs(g) ==
  CASE g.name = "timing" -> {<<StrVal("A"), StrVal("B")>>}
    [] g.name = "move_only" -> {<<IntVal(3)>>, <<StrVal("abc")>>, <<SentVal(1)>>}
    [] OTHER -> {[k \in 1..g.nIn |-> SentVal(k)]}

NTerms(g) == g.nIn + Len(g.nodes)

\* the copy edges of a graph, node inputs first, then outputs: each gets a
\* future of its own for the copy
CopySites(g) ==
  LET RECURSIVE OfNode(_, _)
      OfNode(n, k) ==
        IF n > Len(g.nodes) THEN <<>>
        ELSE IF k > Len(g.nodes[n].ins) THEN OfNode(n + 1, 1)
        ELSE (IF g.nodes[n].ins[k].by = "copy" THEN <<(<<"node", n, k>>)>> ELSE <<>>)
             \o OfNode(n, k + 1)
      RECURSIVE OfOut(_)
      OfOut(k) ==
        IF k > Len(g.outs) THEN <<>>
        ELSE (IF g.outs[k].by = "copy" THEN <<(<<"out", 0, k>>)>> ELSE <<>>) \o OfOut(k + 1)
  IN OfNode(1, 1) \o OfOut(1)

EdgeAt(g, site) ==
  IF site[1] = "node" THEN g.nodes[site[2]].ins[site[3]] ELSE g.outs[site[3]]

CopyCell(g, site) ==
  NTerms(g) + (CHOOSE j \in 1..Len(CopySites(g)) : CopySites(g)[j] = site)

\* every use of a term through a share: borrow edges and copy edges
SharedTerms(g) ==
  LET RECURSIVE OfNode(_, _)
      OfNode(n, k) ==
        IF n > Len(g.nodes) THEN <<>>
        ELSE IF k > Len(g.nodes[n].ins) THEN OfNode(n + 1, 1)
        ELSE (IF g.nodes[n].ins[k].by \in {"borrow", "copy"}
              THEN <<g.nodes[n].ins[k].t>> ELSE <<>>) \o OfNode(n, k + 1)
      RECURSIVE OfOut(_)
      OfOut(k) ==
        IF k > Len(g.outs) THEN <<>>
        ELSE (IF g.outs[k].by = "copy" THEN <<g.outs[k].t>> ELSE <<>>) \o OfOut(k + 1)
  IN OfNode(1, 1) \o OfOut(1)

\* execute: a future per term, a task per node and per copy; the result is
\* the futures of the outputs, followed by the post-borrow futures of the
\* inputs when the caller passed them borrowed
execute(g, inputs) ==
  LET sites == CopySites(g)
      n == NTerms(g) + Len(sites)
      cs0 == [c \in 1..n |->
                IF c <= g.nIn
                THEN (IF g.promised THEN Cell("pending", NoVal, 0)
                      ELSE Cell("ready", inputs[c], 0))
                ELSE Cell("pending", NoVal, 0)]
      nodeTasks ==
        {Task(g.nodes[k].fn,
              [j \in 1..Len(g.nodes[k].ins) |->
                 IF g.nodes[k].ins[j].by = "copy"
                 THEN In(CopyCell(g, <<"node", k, j>>), "move")
                 ELSE In(g.nodes[k].ins[j].t, g.nodes[k].ins[j].by)],
              IF g.nodes[k].nout = 0 THEN 0 ELSE g.nIn + k) : k \in 1..Len(g.nodes)}
      copyTasks ==
        {Task("copy", <<In(EdgeAt(g, sites[j]).t, "borrow")>>, NTerms(g) + j) :
           j \in 1..Len(sites)}
      outs == [k \in 1..Len(g.outs) |->
                 IF g.outs[k].by = "copy" THEN CopyCell(g, <<"out", 0, k>>)
                 ELSE g.outs[k].t]
      posts == IF g.borrowed THEN [k \in 1..g.nIn |-> k] ELSE <<>>
  IN [cells |-> BorrowAll(cs0, SharedTerms(g)),
      tasks |-> nodeTasks \cup copyTasks,
      res |-> outs \o posts]

\* what the graph denotes: the value of a term, whatever the schedule
RECURSIVE TermVal(_, _, _)
TermVal(g, inputs, t) ==
  IF t <= g.nIn THEN inputs[t]
  ELSE LET nd == g.nodes[t - g.nIn]
       IN Apply(nd.fn, [k \in 1..Len(nd.ins) |->
                          IF nd.ins[k].by = "copy"
                          THEN CopyOf(TermVal(g, inputs, nd.ins[k].t))
                          ELSE TermVal(g, inputs, nd.ins[k].t)])

OutVal(g, inputs, k) ==
  IF g.outs[k].by = "copy" THEN CopyOf(TermVal(g, inputs, g.outs[k].t))
  ELSE TermVal(g, inputs, g.outs[k].t)

InitGraph ==
  /\ env = create_env_data
  /\ bindings = NoBindings
  /\ pc = "idle"
  /\ exMode \in {"seq", "task"}
  /\ \E g \in Graphs : \E inputs \in GraphInputs(g) :
       LET r == execute(g, inputs)
       IN /\ tasks = r.tasks
          /\ last = [op |-> "execute", g |-> g, inputs |-> inputs, res |-> r.res]
          /\ cells = Sweep(r.cells, SeqRange(r.res), r.tasks)

\* the caller sends the promises of the inputs, in order
PromiseSend ==
  /\ \E c \in 1..last.g.nIn :
       /\ cells[c].st = "pending"
       /\ \A d \in 1..(c - 1) : cells[d].st # "pending"
       /\ cells' = Sweep(Send(cells, c, last.inputs[c]), SeqRange(last.res), tasks)
  /\ UNCHANGED <<env, bindings, pc, last, exMode, tasks>>

NextGraph ==
  \/ \E t \in tasks : TaskStart(t)
  \/ \E t \in tasks : TaskFinish(t)
  \/ PromiseSend

SpecGraph == InitGraph /\ [][NextGraph]_vars

(***************************************************************************)
(* Properties of run and run_to_string.                                    *)
(***************************************************************************)
RunStep == pc = "idle" /\ pc' = "running"
ReturnStep == pc = "running" /\ pc' = "idle"

IsRun(l) == l.op \in {"run", "run_to_string"}

\* the values a binding holds, read through its futures
ValuesOf(bs, cs, n) == [k \in 1..Len(bs[n].values) |-> cs[bs[n].values[k]].val]

\* the binding is what it was: same type, same futures, same values in them
SameBinding(n) ==
  /\ n \in DOMAIN bindings'
  /\ bindings'[n] = bindings[n]
  /\ ValuesOf(bindings', cells', n) = ValuesOf(bindings, cells, n)

\* the value a future holds or, while the task that resolves it has not
\* finished, the value that task will send
RECURSIVE Eventual(_, _, _, _)
Eventual(cs, ts, c, fuel) ==
  IF cs[c].st \in {"lent", "ready"} THEN cs[c].val
  ELSE IF fuel = 0 \/ ~(\E t \in ts : t.out = c) THEN Garbage
  ELSE LET t == CHOOSE t \in ts : t.out = c
       IN Apply(t.fn, [k \in 1..Len(t.ins) |->
                         IF t.st = "running" /\ t.ins[k].by = "move" THEN t.vals[k]
                         ELSE Eventual(cs, ts, t.ins[k].c, fuel - 1)])

EventualValues(bs, cs, ts, n) ==
  [k \in 1..Len(bs[n].values) |-> Eventual(cs, ts, bs[n].values[k], Cardinality(ts))]

\* the value an expression denotes over the bindings
ExprValue(bs, cs, ts, e) ==
  CASE e.k = "lit" -> <<e.v>>
    [] e.k = "id" -> EventualValues(bs, cs, ts, e.a)
    [] e.k = "clone" -> <<CopyOf(EventualValues(bs, cs, ts, e.a)[1])>>
    [] e.k = "tostr" -> <<to_string(EventualValues(bs, cs, ts, e.a)[1])>>
    [] OTHER -> <<>>

\* the names the call captured by borrow
BorrowedNames(l) ==
  BorrowUses(l.inp.e) \cup (IF l.wrap = "borrow" THEN {l.inp.e.a} ELSE {})

\* the names the call captured by value
ValueNames(l) == IF l.wrap = "borrow" THEN {} ELSE ValueUses(l.inp.e)

\* C2: when run or run_to_string fails in parsing or sema, the binding map
\* returned with the errors has exactly the names, types and values passed
\* in, no future was taken, borrowed or dropped, no task was submitted, and
\* the program, function table and roots of the environment are unchanged.
C2_FailedRunKeepsState ==
  [][(RunStep /\ ~last'.ok) =>
       /\ bindings' = bindings
       /\ \A c \in CellsOf(bindings) : cells'[c] = cells[c]
       /\ tasks' = tasks
       /\ env'.program = env.program
       /\ env'.fns = env.fns
       /\ env'.parsed_roots = env.parsed_roots]_vars

\* run_to_string fails in its second sema while both names are bound
C2_Witness ==
  /\ pc = "running" /\ last.op = "run_to_string" /\ ~last.ok
  /\ last.err = "NoMatchingOverload"
  /\ DOMAIN bindings = Names

\* C3 as stated: a successful run that uses a non-copy binding x by value
\* leaves x absent from the returned map.
C3_ConsumedAlways ==
  [][\A n \in Names :
       (/\ RunStep /\ last'.ok
        /\ n \in ValueNames(last') /\ n \in DOMAIN bindings
        /\ ~is_binding_copyable(bindings[n].type))
       => n \notin DOMAIN bindings']_vars

\* C3, amended: a successful run that uses a non-copy binding x by value
\* and is not an assignment to x leaves x absent from the returned map, and
\* every run that then refers to x fails with the undeclared-binding error;
\* a run that refers to a name the map does not have fails with that error.
C3_ConsumedUnlessRebound ==
  [][/\ \A n \in Names :
          (/\ RunStep /\ last'.ok
           /\ n \in ValueNames(last') /\ n \in DOMAIN bindings
           /\ ~is_binding_copyable(bindings[n].type)
           /\ last'.inp.let # n)
          => /\ n \notin DOMAIN bindings'
             /\ \A inp \in Inputs \cup StrInputs :
                  n \in Mentions(inp.e) =>
                    /\ sema(bindings', inp).err = "UndefinedBinding"
                    /\ sema(bindings', inp).name \notin DOMAIN bindings'
     /\ (RunStep /\ Mentions(last'.inp.e) \ DOMAIN bindings # {})
          => /\ ~last'.ok
             /\ last'.err = "UndefinedBinding"
             /\ last'.name \in Mentions(last'.inp.e) \ DOMAIN bindings]_vars

\* the string x was run by value: it is the result and no longer a binding
C3_Witness ==
  /\ last.op = "run" /\ last.ok /\ last.inp = Input("", Id("x"))
  /\ "x" \notin DOMAIN bindings
  /\ Len(last.res) = 1 /\ cells[last.res[1]].val = StrVal("abc")

\* the result of running the expression n by value, once it is resolved, is
\* the value of n (its text for run_to_string)
ResultIsValueOf(n) ==
  (/\ IsRun(last) /\ last.ok /\ last.inp = Input("", Id(n))
   /\ n \in DOMAIN bindings
   /\ \A c \in SeqRange(last.res) : cells[c].st = "ready")
  => IF last.op = "run"
     THEN [k \in 1..Len(last.res) |-> cells[last.res[k]].val]
            = ValuesOf(bindings, cells, n)
     ELSE /\ Len(last.res) = 1
          /\ cells[last.res[1]].val = to_string(cells[bindings[n].values[1]].val)

\* C4: for a binding x of a copy-registered type, every run of the
\* expression x succeeds, leaves x in the returned map with the same type
\* and value, and yields a result equal to the value of x; this holds at
\* every such run, however many came before.
C4_CopyBindingSurvives ==
  [][\A n \in Names :
       /\ (/\ RunStep /\ last'.inp = Input("", Id(n))
           /\ n \in DOMAIN bindings /\ is_binding_copyable(bindings[n].type))
          => (last'.ok /\ SameBinding(n))
       /\ (n \in DOMAIN bindings' /\ is_binding_copyable(bindings'[n].type))
          => ResultIsValueOf(n)']_vars

\* x = 3 was run by value on the thread pool, the result is there and x is
\* still bound to 3
C4_Witness ==
  /\ exMode = "task" /\ last.op = "run" /\ last.ok
  /\ last.inp = Input("", Id("x"))
  /\ "x" \in DOMAIN bindings
  /\ cells[bindings["x"].values[1]].val = IntVal(3)
  /\ Len(last.res) = 1 /\ cells[last.res[1]] = Cell("ready", IntVal(3), 0)

\* C5 as stated: a successful run that uses x only through a borrow leaves
\* x in the map with its value.
C5_BorrowKeepsAlways ==
  [][\A n \in Names :
       (RunStep /\ last'.ok /\ n \in BorrowedNames(last'))
       => /\ n \in DOMAIN bindings'
          /\ bindings'[n].type = bindings[n].type
          /\ EventualValues(bindings', cells', tasks', n)
               = EventualValues(bindings, cells, tasks, n)]_vars

\* C5, amended: a successful run that uses x only through a borrow and is
\* not an assignment to x leaves x in the map with its type and value, and
\* a by-value run of x yields that value: the futures of x themselves when
\* x is not copyable, an equal value when it is.
C5_BorrowKeepsUnlessRebound ==
  [][\A n \in Names :
       /\ (RunStep /\ last'.ok /\ n \in BorrowedNames(last') /\ last'.inp.let # n)
          => SameBinding(n)
       /\ (/\ RunStep /\ last'.ok /\ last'.op = "run"
           /\ last'.inp = Input("", Id(n))
           /\ ~is_binding_copyable(bindings[n].type))
          => /\ last'.res = bindings[n].values
             /\ \A c \in SeqRange(last'.res) : cells'[c].val = cells[c].val
       /\ (n \in DOMAIN bindings') => ResultIsValueOf(n)']_vars

\* let y = clone(&x) has run to its end: y holds an equal value and x is
\* what it was
C5_Witness ==
  /\ last.op = "run" /\ last.ok /\ last.inp = Input("y", Clone("x"))
  /\ DOMAIN bindings = Names /\ tasks = {}
  /\ cells[bindings["x"].values[1]] = Cell("ready", StrVal("abc"), 0)
  /\ cells[bindings["y"].values[1]] = Cell("ready", StrVal("abc"), 0)

\* C6 as stated: every binding the run borrowed is Ready when run returns.
C6_ReadyAtReturnAlways ==
  [][(ReturnStep /\ last.ok) =>
       \A n \in BorrowedNames(last) \cap DOMAIN bindings :
         find_binding_state(cells, bindings[n]) = "Ready"]_vars

\* C6, amended: a binding that run borrows is Borrowed from the borrow on,
\* it is Borrowed exactly as long as a task that borrows it has not
\* finished, and under the sequential executor every binding is Ready when
\* run returns; under the thread pool run can return before that.
C6_BorrowedUntilTaskDone ==
  [][/\ \A n \in Names :
          (/\ RunStep /\ last'.ok /\ n \in BorrowedNames(last')
           /\ n \in DOMAIN bindings' /\ bindings'[n] = bindings[n]
           /\ find_binding_state(cells, bindings[n]) = "Ready")
          => find_binding_state(cells', bindings'[n]) = "Borrowed"
     /\ (ReturnStep /\ exMode = "seq")
          => \A n \in DOMAIN bindings :
               find_binding_state(cells, bindings[n]) = "Ready"
     /\ \A c \in CellsOf(bindings') :
          cells'[c].shares = Cardinality({t \in tasks' : c \in BorrowedBy(t)})]_vars

\* run has returned on the thread pool and the binding it borrowed is
\* still Borrowed
C6_Witness ==
  /\ exMode = "task" /\ pc = "idle" /\ last.ok
  /\ last.inp = Input("", Clone("x"))
  /\ "x" \in DOMAIN bindings
  /\ find_binding_state(cells, bindings["x"]) = "Borrowed"

\* how many places of a sequence hold the future c
Count(seq, c) == Cardinality({k \in 1..Len(seq) : seq[k] = c})

RECURSIVE SumOver(_, _, _)
SumOver(S, f, c) ==
  IF S = {} THEN 0
  ELSE LET n == CHOOSE n \in S : TRUE IN Count(f[n].values, c) + SumOver(S \ {n}, f, c)

\* the owners of a future: binding values, the result of the last call and
\* the tasks it was moved into
Owners(c) ==
  SumOver(DOMAIN bindings, bindings, c) + Count(last.res, c)
    + Cardinality({t \in tasks : c \in MovedBy(t)})

\* C8: a future has at most one owner (a binding value, the result handed
\* to the caller or the task it was moved into), an owned future was not
\* moved from, and an unresolved future is resolved by exactly one task,
\* which sends once: no value can be obtained through two live futures.
C8_SingleOwner ==
  /\ \A c \in DOMAIN cells :
       /\ Owners(c) <= 1
       /\ (Owners(c) = 1 => cells[c].st # "free")
       /\ Cardinality({t \in tasks : t.out = c}) <= 1
       /\ (cells[c].st = "pending" => \E t \in tasks : t.out = c)
  /\ \A t \in tasks : t.out \in DOMAIN cells /\ cells[t.out].st = "pending"

\* let y = x moved the future of the string x into y: x is gone, y is its
\* only owner
C8_Witness ==
  /\ last.op = "run" /\ last.ok /\ last.inp = Input("y", Id("x"))
  /\ DOMAIN bindings = {"y"}
  /\ cells[bindings["y"].values[1]] = Cell("ready", StrVal("abc"), 0)
  /\ Owners(bindings["y"].values[1]) = 1

\* C10 as stated: after a successful let x = e over a map that has x, the
\* returned map has x with the type and the value of e.
C10_LetOverwrites ==
  [][\A n \in Names :
       (RunStep /\ last'.ok /\ last'.inp.let = n /\ n \in DOMAIN bindings)
       => /\ n \in DOMAIN bindings'
          /\ bindings'[n].type = TypeOfExpr(bindings, last'.inp.e)
          /\ EventualValues(bindings', cells', tasks', n)
               = ExprValue(bindings, cells, tasks, last'.inp.e)]_vars

(***************************************************************************)
(* Properties of graph execution.                                          *)
(***************************************************************************)
\* the futures of graph inputs that come back to the caller
ReturnedInputs == {c \in SeqRange(last.res) : c <= last.g.nIn}

\* C7: the future left behind by a borrow is resolved only when no share
\* is out and no task that borrows it is still there, and it then holds
\* the value that was put in, not a copy; in every interleaving.
C7_PostBorrowAfterShares ==
  /\ \A c \in DOMAIN cells :
       /\ cells[c].st = "ready"
          => /\ cells[c].shares = 0
             /\ \A t \in tasks : c \notin BorrowedBy(t)
       /\ cells[c].st = "lent" => cells[c].shares > 0
  /\ \A c \in ReturnedInputs :
       cells[c].st = "ready" => cells[c].val = last.inputs[c]

\* timing on the thread pool: the first input is back with its value while
\* the borrower of the second is still running
C7_Witness ==
  /\ last.op = "execute" /\ last.g.name = "timing" /\ exMode = "task"
  /\ cells[1] = Cell("ready", StrVal("A"), 0)
  /\ cells[2].st = "lent"
  /\ \E t \in tasks : t.st = "running" /\ 2 \in BorrowedBy(t)

\* C9: an output that is resolved holds the value the graph denotes for
\* the inputs, and when no task is left every output is resolved; under the
\* sequential executor and under the thread pool, whatever the schedule.
C9_SameOutputs ==
  /\ \A k \in 1..Len(last.g.outs) :
       cells[last.res[k]].st = "ready"
         => cells[last.res[k]].val = OutVal(last.g, last.inputs, k)
  /\ (tasks = {} /\ \A c \in 1..last.g.nIn : c \in DOMAIN cells => cells[c].st # "pending")
       => \A k \in 1..Len(last.g.outs) : cells[last.res[k]].st = "ready"

\* the sentinal graph has run to its end on the thread pool
C9_Witness ==
  /\ last.op = "execute" /\ last.g.name = "sentinal" /\ exMode = "task"
  /\ tasks = {}
  /\ \A k \in 1..Len(last.g.outs) : cells[last.res[k]].st = "ready"
  /\ cells[last.res[2]].val = CopyOf(SentVal(2))

(***************************************************************************)
(* The shape of the bindings and the layout of an assignment.              *)
(***************************************************************************)
RECURSIVE HasBorrow(_)
HasBorrow(type) ==
  \/ type.tag = "Borrow"
  \/ \E k \in 1..Len(type.kids) : HasBorrow(type.kids[k])

TakenValues(bs, e) ==
  IF e.k = "pair" THEN bs[e.a].values \o bs[e.b].values ELSE bs[e.a].values

\* the sum of the sizes of the leaves before leaf i
RECURSIVE OffsetOf(_, _)
OffsetOf(leaves, i) ==
  IF i = 1 THEN 0 ELSE OffsetOf(leaves, i - 1) + size_of(leaves[i - 1].type)

\* C12: an assignment gives each identifier of the pattern, from left to
\* right, the consecutive block of size_of(its type) values of the result
\* at its position, gives the block of a wildcard to nobody, and ends with
\* the offset at the number of values.
C12_BlocksInOrder ==
  [][(RunStep /\ last'.ok /\ "pat" \in DOMAIN last'.inp
        /\ last'.inp.e.k \in {"id", "pair"})
     => LET e == last'.inp.e
            vals == TakenValues(bindings, e)
            leaves == leaf_ids(last'.inp.pat, TypeOfExpr(bindings, e))
        IN /\ \A i \in 1..Len(leaves) :
                LET b == SubSeq(vals, OffsetOf(leaves, i) + 1,
                                OffsetOf(leaves, i) + size_of(leaves[i].type))
                    n == leaves[i].name
                IN IF leaves[i].tag = "ident"
                   THEN n \in DOMAIN bindings \ Mentions(e)
                        \/ /\ n \in DOMAIN bindings'
                           /\ bindings'[n] = Binding(leaves[i].type, b)
                   ELSE SeqRange(b) \cap CellsOf(bindings') = {}
           /\ DOMAIN bindings' \ DOMAIN bindings \subseteq PatNames(last'.inp.pat)
           /\ assign_values_from(EmptyMap, vals, leaves, 1, 0).offset = Len(vals)]_vars

\* a nested pattern with a wildcard has split a binding of three values
C12_Witness ==
  /\ pc = "running" /\ last.ok
  /\ "pat" \in DOMAIN last.inp
  /\ last.inp.pat = PTuple(<<PTuple(<<PWild, PIdent("x")>>), PIdent("y")>>)
  /\ {"x", "y"} \subseteq DOMAIN bindings
  /\ bindings["x"].values # bindings["y"].values

(***************************************************************************)
(* sema.                                                                   *)
(***************************************************************************)
\* the overloads of the name of a use that unify with its type
Matches(fns, use) ==
  IF use.name \in DOMAIN fns
  THEN {i \in 1..Len(fns[use.name]) : unify_types(fns[use.name][i], use.type)}
  ELSE {}

\* what the step reports of the use u
Bound(out, u, i) ==
  \E j \in 1..Len(out.all_overloads) :
    out.all_overloads[j].use = u /\ out.all_overloads[j].overload = i
Reported(out, u, msg) ==
  \E j \in 1..Len(out.errors) : out.errors[j].use = u /\ out.errors[j].err = msg
Listed(out, u, ts) ==
  \A j \in 1..Len(out.errors) :
    out.errors[j].use = u =>
      {out.errors[j].notes[q] : q \in 1..Len(out.errors[j].notes)} = ts

Resolved == last.op \in {"overload_resolution", "create_call_graph_data"}
Declared == {k \in 1..Len(last.uses) : last.uses[k].name \in DOMAIN last.fns}

\* the use is bound with exactly one match, and the error is the one of its
\* number of matches otherwise; the step succeeds only with one match each
DecisionByMatches ==
  Resolved =>
    /\ \A k \in Declared :
         LET u == last.uses[k]
             M == Matches(last.fns, u)
             fs == last.fns[u.name]
         IN /\ Cardinality(M) = 1 => \A i \in 1..Len(fs) : Bound(last.out, u, i) <=> i \in M
            /\ Cardinality(M) = 0 =>
                 /\ Reported(last.out, u, "no matching overload found")
                 /\ \A i \in 1..Len(fs) : ~Bound(last.out, u, i)
            /\ Cardinality(M) > 1 =>
                 /\ Reported(last.out, u, "function call is ambiguous")
                 /\ \A i \in 1..Len(fs) : ~Bound(last.out, u, i)
    /\ last.out.ok => \A k \in Declared : Cardinality(Matches(last.fns, last.uses[k])) = 1

\* the ambiguity error lists the types of the overloads that match
AmbiguityListsCandidates ==
  Resolved =>
    \A k \in Declared :
      LET u == last.uses[k]
          M == Matches(last.fns, u)
      IN Cardinality(M) > 1 => Listed(last.out, u, {last.fns[u.name][i] : i \in M})

\* C13: overload resolution keeps the overloads whose type unifies with
\* the type of the use. With exactly one the use is bound to it, with none
\* the error is "no matching overload found", with more than one it is the
\* ambiguity error, which lists the candidates; sema succeeds only if every
\* use has exactly one.
C13_OneMatchBinds == DecisionByMatches /\ AmbiguityListsCandidates

(***************************************************************************)
(* Scoping, said without the stack: the binder of an identifier is looked  *)
(* for from the inside out, in the pattern of each `let` whose body the    *)
(* identifier is in and in the pattern of each function whose body it is   *)
(* in.                                                                     *)
(***************************************************************************)
\* the identifiers of a pattern with the text n, as paths from `id`
RECURSIVE PatIdents(_, _, _)
PatIdents(pat, id, n) ==
  IF pat.tag = "ident" THEN (IF pat.name = n THEN {id} ELSE {})
  ELSE UNION {PatIdents(pat.kids[k], Append(id, k), n) : k \in 1..Len(pat.kids)}

\* path p comes before path q from left to right
RECURSIVE Before(_, _)
Before(p, q) ==
  /\ p # <<>> /\ q # <<>>
  /\ \/ Head(p) < Head(q)
     \/ Head(p) = Head(q) /\ Before(Tail(p), Tail(q))

\* the patterns in scope at the child after prefix q of the path
ScopeAt(root, path, k, n) ==
  LET q == SubSeq(path, 2, k)
      m == NodeAt(root, q)
      qid == SubSeq(path, 1, k)
  IN IF m.tag = "ExprWith" /\ path[k + 1] = 2
     THEN PatIdents(m.kids[1].kids[1], qid \o <<1, 1>>, n)
     ELSE IF m.tag = "Fn" /\ path[k + 1] = 2
     THEN PatIdents(m.kids[1], qid \o <<1>>, n)
     ELSE {}

\* the binders of the identifier at `path`: empty, or the one pattern that
\* is innermost and, in its pattern, last
Binder(roots, path) ==
  LET root == roots[path[1]]
      n == NodeAt(root, Tail(path)).name
      levels == {k \in 1..(Len(path) - 1) : ScopeAt(root, path, k, n) # {}}
  IN IF levels = {} THEN {}
     ELSE LET k == CHOOSE k \in levels : \A j \in levels : j <= k
              S == ScopeAt(root, path, k, n)
          IN {CHOOSE b \in S : \A c \in S \ {b} : Before(c, b)}

ExprIdents(roots) ==
  UNION {{id \in IdsUnder(roots[r], <<r>>) : NodeAt(roots[r], Tail(id)).tag = "ExprIdent"} :
           r \in 1..Len(roots)}

GlobalsNamed(roots, n) ==
  {<<r, 1>> : r \in {q \in 1..Len(roots) : roots[q].tag = "Global" /\ roots[q].kids[1].name = n}}

\* C16: calculate_ident_graph resolves an identifier to the pattern of its
\* text that is in scope and was introduced last (the inner one over the
\* outer, the later `let` over the earlier), with exactly one edge; only
\* with no such pattern it resolves to the globals of that name, all of them.
C16_InnermostBinder ==
  last.op = "calculate_ident_graph" =>
    \A id \in ExprIdents(last.roots) :
      LET fo == fanout(last.out, id)
          B == Binder(last.roots, id)
          n == NodeAt(last.roots[id[1]], Tail(id)).name
      IN IF B # {}
         THEN Len(fo) = 1 /\ fo[1] \in B
         ELSE /\ {fo[k] : k \in 1..Len(fo)} = GlobalsNamed(last.roots, n)
              /\ Len(fo) = Cardinality(GlobalsNamed(last.roots, n))

\* fn f(a) { let a = { let a = 1; a }; a } next to two globals a: the
\* identifiers resolve to the two lets, not to the parameter or the globals
C16_Witness ==
  /\ last.op = "calculate_ident_graph"
  /\ Len(last.roots) = 3
  /\ last.roots[3] =
       GlobalNode("f", FnNode(PIdent("a"),
         ExprWith(Assignment(PIdent("a"),
                    ExprWith(Assignment(PIdent("a"), ExprLiteral), ExprIdent("a"))),
                  ExprIdent("a"))))
  /\ fanout(last.out, <<3, 2, 2, 2>>) = <<<<3, 2, 2, 1, 1>>>>
  /\ fanout(last.out, <<3, 2, 2, 1, 2, 2>>) = <<<<3, 2, 2, 1, 2, 1, 1>>>>

\* the identifiers that take pattern `pat` by value, found without the graph
ValueUsesOf(roots, pat) ==
  {id \in ExprIdents(roots) :
     /\ Binder(roots, id) = {pat}
     /\ NodeAt(roots[id[1]], SubSeq(id, 2, Len(id) - 1)).tag # "ExprBorrow"}

\* C14: a script function in which a binding of a type that is not
\* copyable is used by value more than once is rejected with "binding 'x'
\* used N times", and no graph is generated for it: the program and the
\* function table stay as they were.
C14_UsedTwiceRejected ==
  last.op = "elaborate" =>
    \A pat \in LocalPatterns(last.roots) :
      LET n == NodeAt(last.roots[pat[1]], Tail(pat)).name
          N == Cardinality(ValueUsesOf(last.roots, pat))
      IN (n \in last.move_only /\ N > 1)
         => /\ ~last.ok
            /\ [pattern |-> pat, name |-> n, times |-> N] \in last.errs
            /\ env = create_env_data

\* fn f(a: unique_int) = (a, a) is rejected: a is used 2 times
C14_Witness ==
  /\ last.op = "elaborate"
  /\ last.roots = <<GlobalNode("f", FnNode(PIdent("a"),
                       ExprTuple(<<ExprIdent("a"), ExprIdent("a")>>)))>>
  /\ last.move_only = {"a"}
  /\ last.errs = {[pattern |-> <<1, 2, 1>>, name |-> "a", times |-> 2]}
  /\ env.program = create_env_data.program

MaxK == 2

BoolVal(b) == [ty |-> "bool", i |-> IF b THEN 1 ELSE 0, s |-> "", cp |-> 0]

IsTrue(v) == v.ty = "bool" /\ v.i = 1

Pending(n) == [c \in 1..n |-> Cell("pending", NoVal, 0)]

\* select(k): input 1 is the condition, 2..k+1 the first group and
\* k+2..2k+1 the second; the outputs follow the inputs
chosen_last(cond, k, i) == 1 + k + i

chosen(cond, k, i) == IF cond THEN 1 + i ELSE 1 + k + i

unchosen(cond, k, i) == IF cond THEN 1 + k + i ELSE 1 + i

select_out(k, i) == 1 + 2 * k + i

\* the condition resolved: the group not chosen is dropped at once
select_decide(cs, l) ==
  IF ~l.decided /\ cs[1].st = "ready"
  THEN {<<[c \in DOMAIN cs |->
             IF \E i \in 1..l.k : c = unchosen(IsTrue(cs[1].val), l.k, i)
             THEN FreeCell ELSE cs[c]],
          [l EXCEPT !.decided = TRUE,
                    !.dropped = {unchosen(IsTrue(cs[1].val), l.k, i) : i \in 1..l.k}]>>}
  ELSE {}

\* a chosen input that has resolved moves to its output
select_forward(cs, l) ==
  {<<Send(Take(cs, chosen(IsTrue(cs[1].val), l.k, i)), select_out(l.k, i),
          cs[chosen(IsTrue(cs[1].val), l.k, i)].val), l>> :
     i \in {j \in 1..l.k : /\ l.decided
                           /\ cs[chosen(IsTrue(cs[1].val), l.k, j)].st = "ready"
                           /\ cs[select_out(l.k, j)].st = "pending"}}

create_async_select(cs, l) == select_decide(cs, l) \cup select_forward(cs, l)

SelectCall(k, cond) ==
  [op |-> "select", k |-> k, nin |-> 1 + 2 * k, nout |-> k,
   inputs |-> <<BoolVal(cond)>> \o [i \in 1..(2 * k) |-> IntVal(i)],
   sent |-> {}, dropped |-> {}, decided |-> FALSE, calls |-> <<>>]

SelectCalls == {SelectCall(k, cond) : k \in 0..MaxK, cond \in BOOLEAN}

\* the functions the primitives are given: what each returns for its owned
\* arguments o and its borrowed arguments b
native(fn, o, b) ==
  CASE fn = "value1" -> <<IntVal(1)>>
    [] fn = "value2" -> <<IntVal(2)>>
    [] fn = "value_true" -> <<BoolVal(TRUE)>>
    [] fn = "identity" -> <<o[1]>>
    [] fn = "add1" -> <<IntVal(o[1].i + 1)>>
    [] fn = "identity_borrow" -> <<b[1]>>
    [] fn = "add1_borrow" -> <<IntVal(b[1].i + 1)>>
    [] fn = "add" -> <<IntVal(o[1].i + b[1].i)>>
    [] fn = "mul" -> <<IntVal(o[1].i * b[1].i)>>
    [] fn = "body" -> <<BoolVal(o[1].i + 1 >= b[1].i), IntVal(o[1].i + 1)>>
    [] fn = "never" -> <<BoolVal(FALSE)>> \o o
    [] OTHER -> <<>>

owned_of(fn) == IF fn \in {"identity", "add1", "add", "mul", "body", "never"} THEN 1 ELSE 0

borrowed_of(fn) ==
  IF fn \in {"identity_borrow", "add1_borrow", "add", "mul", "body", "never"} THEN 1 ELSE 0

\* if(then_fn, else_fn): input 1 is the condition, then the owned and then
\* the borrowed arguments; one output
branch_then(cond, then_fn, else_fn) == then_fn

branch(cond, then_fn, else_fn) == IF cond THEN then_fn ELSE else_fn

owned_args(l) == [i \in 1..l.no |-> 1 + i]

borrowed_args(l) == [i \in 1..l.nb |-> 1 + l.no + i]

\* the condition resolved: one branch is invoked with the argument futures
if_dispatch(cs, l) ==
  IF ~l.decided /\ cs[1].st = "ready"
  THEN {<<cs, [l EXCEPT !.decided = TRUE,
                        !.calls = Append(@,
                          [fn |-> branch(IsTrue(cs[1].val), l.then_fn, l.else_fn),
                           owned |-> owned_args(l),
                           borrowed |-> borrowed_args(l)])]>>}
  ELSE {}

\* an invoked function runs once its arguments are there; the owned ones
\* are consumed, the borrowed ones only read
if_run(cs, l) ==
  IF /\ Len(l.calls) > 0
     /\ cs[l.nin + 1].st = "pending"
     /\ \A i \in 1..Len(l.calls[1].owned) : cs[l.calls[1].owned[i]].st = "ready"
     /\ \A i \in 1..Len(l.calls[1].borrowed) : cs[l.calls[1].borrowed[i]].st = "ready"
  THEN {<<Send([c \in DOMAIN cs |->
                  IF \E i \in 1..Len(l.calls[1].owned) : c = l.calls[1].owned[i]
                  THEN FreeCell ELSE cs[c]],
               l.nin + 1,
               native(l.calls[1].fn,
                      [i \in 1..Len(l.calls[1].owned) |-> cs[l.calls[1].owned[i]].val],
                      [i \in 1..Len(l.calls[1].borrowed) |-> cs[l.calls[1].borrowed[i]].val])[1]),
          l>>}
  ELSE {}

create_async_if(cs, l) == if_dispatch(cs, l) \cup if_run(cs, l)

IfCall(cond, then_fn, else_fn) ==
  [op |-> "if", then_fn |-> then_fn, else_fn |-> else_fn,
   no |-> owned_of(then_fn), nb |-> borrowed_of(then_fn),
   nin |-> 1 + owned_of(then_fn) + borrowed_of(then_fn), nout |-> 1,
   inputs |-> <<BoolVal(cond)>> \o [i \in 1..owned_of(then_fn) |-> IntVal(3)]
                \o [i \in 1..borrowed_of(then_fn) |-> IntVal(4)],
   sent |-> {}, dropped |-> {}, decided |-> FALSE, calls |-> <<>>]

IfPairs ==
  {<<"value1", "value2">>, <<"identity", "add1">>,
   <<"identity_borrow", "add1_borrow">>, <<"add", "mul">>}

IfCalls == {IfCall(cond, p[1], p[2]) : cond \in BOOLEAN, p \in IfPairs}

\* converge: input 1 is the body, input 2 the initial flag, then the state
\* and then the borrowed inputs; the outputs are the state
MaxLimit == 3

MaxIter == MaxLimit + 1

borrowed_vals(cs, l) == [i \in 1..l.nb |-> cs[2 + l.ns + i].val]

\* the flag and the state of the current iteration: the inputs before the
\* first invocation of the body, its last results after
converge_flag_ready(cs, l) == l.iter > 0 \/ cs[2].st = "ready"

converge_flag(cs, l) == IF l.iter = 0 THEN IsTrue(cs[2].val) ELSE IsTrue(l.cur[1])

converge_state_ready(cs, l) ==
  l.iter > 0 \/ \A i \in 1..l.ns : cs[2 + i].st = "ready"

converge_state_first(cs, l) == [i \in 1..l.ns |-> l.inputs[2 + i]]

converge_state(cs, l) ==
  IF l.iter = 0 THEN [i \in 1..l.ns |-> cs[2 + i].val] ELSE Tail(l.cur)

\* the flag is false: the body is invoked on the current state
converge_iterate(cs, l) ==
  IF /\ l.phase = "check" /\ l.iter < MaxIter
     /\ converge_flag_ready(cs, l) /\ ~converge_flag(cs, l)
     /\ cs[1].st = "ready"
     /\ converge_state_ready(cs, l)
     /\ \A i \in 1..l.nb : cs[2 + l.ns + i].st = "ready"
  THEN {<<[c \in DOMAIN cs |->
             IF c \in 3..(2 + l.ns) THEN FreeCell ELSE cs[c]],
          [l EXCEPT !.iter = @ + 1,
                    !.calls = Append(@, [fn |-> cs[1].val.s,
                                         owned |-> converge_state(cs, l),
                                         borrowed |-> borrowed_vals(cs, l)]),
                    !.cur = native(cs[1].val.s, converge_state(cs, l),
                                   borrowed_vals(cs, l))]>>}
  ELSE {}

\* the flag is true: the state goes to the outputs and the body is dropped
converge_finish(cs, l) ==
  IF /\ l.phase = "check"
     /\ converge_flag_ready(cs, l) /\ converge_flag(cs, l)
     /\ converge_state_ready(cs, l)
  THEN {<<[c \in DOMAIN cs |->
             IF c > l.nin THEN Cell("ready", converge_state(cs, l)[c - l.nin], 0)
             ELSE IF c = 1 \/ c \in 3..(2 + l.ns) THEN FreeCell
             ELSE cs[c]],
          [l EXCEPT !.phase = "done", !.dropped = @ \cup {1}]>>}
  ELSE {}

create_async_converge(cs, l) == converge_iterate(cs, l) \cup converge_finish(cs, l)

ConvergeCall(body, flag, state, borrowed) ==
  [op |-> "converge", ns |-> Len(state), nb |-> Len(borrowed),
   nin |-> 2 + Len(state) + Len(borrowed), nout |-> Len(state),
   inputs |-> <<FnVal(body), BoolVal(flag)>> \o state \o borrowed,
   sent |-> {}, dropped |-> {}, decided |-> FALSE, calls |-> <<>>,
   iter |-> 0, cur |-> <<>>, phase |-> "check"]

ConvergeCalls ==
  {ConvergeCall("value_true", flag, <<>>, <<>>) : flag \in BOOLEAN}
  \cup {ConvergeCall(b, flag, <<IntVal(x)>>, <<IntVal(limit)>>) :
          b \in {"body", "never"}, flag \in BOOLEAN,
          x \in 0..1, limit \in 0..MaxLimit}

PrimCalls == SelectCalls \cup IfCalls \cup ConvergeCalls

\* the continuations that are due
prim_steps(cs, l) ==
  CASE l.op = "select" -> create_async_select(cs, l)
    [] l.op = "if" -> create_async_if(cs, l)
    [] l.op = "converge" -> create_async_converge(cs, l)
    [] OTHER -> {}

InitPrims ==
  /\ env = create_env_data
  /\ bindings = NoBindings
  /\ pc = "running"
  /\ tasks = {}
  /\ exMode \in {"seq", "task"}
  /\ last \in PrimCalls
  /\ cells = Pending(last.nin + last.nout)

\* run_async_fn: the caller resolves one input; a value sent to a future
\* that was dropped is discarded
PrimSend ==
  /\ exMode = "seq" => prim_steps(cells, last) = {}
  /\ \E c \in (1..last.nin) \ last.sent :
       /\ cells' = IF c \in last.dropped THEN cells
                   ELSE Send(cells, c, last.inputs[c])
       /\ last' = [last EXCEPT !.sent = @ \cup {c}]
  /\ UNCHANGED <<env, bindings, pc, exMode, tasks>>

\* one continuation runs
PrimStep ==
  /\ \E x \in prim_steps(cells, last) : cells' = x[1] /\ last' = x[2]
  /\ UNCHANGED <<env, bindings, pc, exMode, tasks>>

NextPrims == PrimSend \/ PrimStep

SpecPrims == InitPrims /\ [][NextPrims]_vars

\* the caller sends every input and the executor runs every continuation
\* that is due
SpecPrimsFair == SpecPrims /\ WF_vars(PrimSend) /\ WF_vars(PrimStep)

PrimOuts == [i \in 1..last.nout |-> cells[last.nin + i]]

Quiescent == last.sent = 1..last.nin /\ prim_steps(cells, last) = {}

\* C17: select with inputs (cond, a1..ak, b1..bk) only ever outputs ai in
\* position i when cond is true and bi when cond is false, and once every
\* input was sent and no continuation is due all k outputs are there; this
\* on the sequential and on the task executor, for k from 0.
C17_SelectOutputs ==
  last.op = "select" =>
    /\ \A i \in 1..last.k :
         PrimOuts[i].st # "pending" =>
           /\ PrimOuts[i].st = "ready"
           /\ PrimOuts[i].val =
                IF IsTrue(last.inputs[1]) THEN last.inputs[1 + i]
                ELSE last.inputs[1 + last.k + i]
    /\ Quiescent => \A i \in 1..last.k : PrimOuts[i].st = "ready"

C17_Witness ==
  /\ last.op = "select" /\ last.k = MaxK /\ exMode = "task"
  /\ ~IsTrue(last.inputs[1])
  /\ Quiescent
  /\ \A i \in 1..last.k : PrimOuts[i].st = "ready"

\* C18: the if primitive invokes at most one function per execution, and
\* once the condition has resolved exactly one: then_fn when the condition
\* is true and else_fn when it is false, with every owned and every
\* borrowed argument input; the output is what that function returns for
\* those arguments, and the function of the other branch is never invoked.
C18_OneBranch ==
  last.op = "if" =>
    /\ Len(last.calls) <= 1
    /\ last.decided =>
         /\ Len(last.calls) = 1
         /\ last.calls[1].fn =
              (IF IsTrue(last.inputs[1]) THEN last.then_fn ELSE last.else_fn)
         /\ last.calls[1].owned = [i \in 1..last.no |-> 1 + i]
         /\ last.calls[1].borrowed = [i \in 1..last.nb |-> 1 + last.no + i]
    /\ \A i \in 1..Len(last.calls) :
         last.calls[i].fn #
           (IF IsTrue(last.inputs[1]) THEN last.else_fn ELSE last.then_fn)
    /\ PrimOuts[1].st # "pending" =>
         /\ PrimOuts[1].st = "ready"
         /\ PrimOuts[1].val =
              native(IF IsTrue(last.inputs[1]) THEN last.then_fn ELSE last.else_fn,
                     [i \in 1..last.no |-> last.inputs[1 + i]],
                     [i \in 1..last.nb |-> last.inputs[1 + last.no + i]])[1]
    /\ Quiescent => PrimOuts[1].st = "ready"

C18_Witness ==
  /\ last.op = "if" /\ last.then_fn = "add" /\ exMode = "task"
  /\ ~IsTrue(last.inputs[1])
  /\ Len(last.calls) = 1 /\ last.calls[1].fn = "mul"
  /\ PrimOuts[1].st = "ready" /\ PrimOuts[1].val = IntVal(12)

\* what the inputs of a converge call say, without running it
InitialFlag == IsTrue(last.inputs[2])

InitialState == [i \in 1..last.ns |-> last.inputs[2 + i]]

BorrowedInputs == [i \in 1..last.nb |-> last.inputs[2 + last.ns + i]]

RECURSIVE ResultOfIteration(_)
ResultOfIteration(n) ==
  native(last.inputs[1].s,
         IF n = 1 THEN InitialState ELSE Tail(ResultOfIteration(n - 1)),
         BorrowedInputs)

BodyReturnsTrue == \E n \in 1..MaxIter : IsTrue(ResultOfIteration(n)[1])

ConvergeDone ==
  /\ last.phase = "done"
  /\ \A i \in 1..last.nout : PrimOuts[i].st = "ready"

ConvergeSteps ==
  last.op = "converge" =>
    /\ InitialFlag =>
         /\ last.calls = <<>>
         /\ last.phase = "done" => \A i \in 1..last.nout : PrimOuts[i].val = InitialState[i]
    /\ \A i \in 1..Len(last.calls) :
         /\ last.calls[i].fn = last.inputs[1].s
         /\ last.calls[i].borrowed = BorrowedInputs
         /\ last.calls[i].owned =
              (IF i = 1 THEN InitialState ELSE Tail(ResultOfIteration(i - 1)))
         /\ i < Len(last.calls) => ~IsTrue(ResultOfIteration(i)[1])
    /\ (last.phase = "done" /\ ~InitialFlag) =>
         /\ Len(last.calls) > 0
         /\ IsTrue(ResultOfIteration(Len(last.calls))[1])
         /\ \A i \in 1..last.nout :
              PrimOuts[i].val = Tail(ResultOfIteration(Len(last.calls)))[i]
    /\ \A i \in 1..last.nout : PrimOuts[i].st # "pending" => ConvergeDone

\* C19: converge with the initial flag true returns the state unchanged and
\* never invokes the body; otherwise the body is applied to the initial
\* state and then to each state it returned, with the same borrowed inputs
\* every time, no further once it returned true, and the output is the
\* state of that last iteration; and when the flag is true or the body
\* returns true after finitely many iterations, the execution completes.
C19_Converge ==
  /\ []ConvergeSteps
  /\ (last.op = "converge" /\ (InitialFlag \/ BodyReturnsTrue)) ~>
       (last.op = "converge" /\ ConvergeDone)

C19_Witness ==
  /\ last.op = "converge" /\ exMode = "task"
  /\ last.inputs[1].s = "body" /\ ~InitialFlag
  /\ Len(last.calls) = MaxLimit
  /\ ConvergeDone
  /\ PrimOuts[1].val = IntVal(MaxLimit)

\* ---------------------------------------------------------------------
\* The handles of an executor.  An Executor counts the ExecutorRefs that
\* refer to it: a handle slot is empty or holds a handle, named after the
\* way it was made.
\* ---------------------------------------------------------------------
MaxHandles == 4

Handles == 1..MaxHandles

NoHandles == [h \in Handles |-> "none"]

Existing(hs) == {h \in Handles : hs[h] # "none"}

acquire(n) == n + 1

release(n) == n - 1

\* ExecutorRef(ExecutorRef&&): the new handle refers to the executor and
\* the moved-from one still does
move_steal(n) == n

move_construct(n) == acquire(n)

\* er = e.ref(): a temporary handle is made, the handle takes its place and
\* what the handle held before is released
assign_ref(n) == release(acquire(n))

InitRefs ==
  /\ env = create_env_data
  /\ bindings = NoBindings
  /\ pc = "idle"
  /\ exMode = "seq"
  /\ cells = <<>>
  /\ tasks = {}
  /\ last = [op |-> "make_seq_executor", h |-> 0, alive |-> TRUE,
             handles |-> NoHandles, count |-> 0]

RefStep(op, h, hs, n) ==
  /\ last.alive
  /\ last' = [last EXCEPT !.op = op, !.h = h, !.handles = hs, !.count = n]
  /\ UNCHANGED <<env, bindings, pc, exMode, cells, tasks>>

\* ExecutorRef er = e;
Convert ==
  \E h \in Handles \ Existing(last.handles) :
    RefStep("conversion", h, [last.handles EXCEPT ![h] = "conversion"],
            acquire(last.count))

\* ExecutorRef er = e.ref();
MakeRef ==
  \E h \in Handles \ Existing(last.handles) :
    RefStep("ref", h, [last.handles EXCEPT ![h] = "ref"], acquire(last.count))

\* ExecutorRef er_copy = er;
CopyConstruct ==
  \E h \in Handles \ Existing(last.handles) : \E src \in Existing(last.handles) :
    RefStep("copy", h, [last.handles EXCEPT ![h] = "copy"], acquire(last.count))

\* ExecutorRef er_move = std::move(er);
MoveConstruct ==
  \E h \in Handles \ Existing(last.handles) : \E src \in Existing(last.handles) :
    RefStep("move", h, [last.handles EXCEPT ![h] = "move", ![src] = "moved"],
            move_construct(last.count))

\* er = e.ref();
AssignRef ==
  \E h \in Existing(last.handles) :
    RefStep("assign", h, [last.handles EXCEPT ![h] = "ref"], assign_ref(last.count))

\* ~ExecutorRef()
DestroyRef ==
  \E h \in Existing(last.handles) :
    RefStep("destroy", h, [last.handles EXCEPT ![h] = "none"], release(last.count))

\* ~Executor(), after the handles declared after it
DestroyExecutor ==
  /\ last.alive /\ Existing(last.handles) = {}
  /\ last' = [last EXCEPT !.op = "~Executor", !.h = 0, !.alive = FALSE]
  /\ UNCHANGED <<env, bindings, pc, exMode, cells, tasks>>

NextRefs ==
  \/ Convert \/ MakeRef \/ CopyConstruct \/ MoveConstruct
  \/ AssignRef \/ DestroyRef \/ DestroyExecutor

SpecRefs == InitRefs /\ [][NextRefs]_vars

ref_count == last.count

CountIsHandles == ref_count = Cardinality(Existing(last.handles))

CountStep ==
  /\ last'.op \in {"conversion", "ref", "copy", "move"} =>
       last'.count = last.count + 1
  /\ last'.op = "assign" => last'.count = last.count
  /\ last'.op = "destroy" => last'.count = last.count - 1
  /\ last'.op = "~Executor" => last'.count = 0

\* C20: ref_count() is always the number of existing ExecutorRef handles of
\* the executor: a handle made by conversion, by ref(), by copy or by move
\* construction adds one, assigning a fresh ref over an existing handle
\* leaves the count as it was, destroying a handle takes one off, and the
\* count is 0 when the Executor is destroyed after all its handles.
C20_RefCount == []CountIsHandles /\ [][CountStep]_vars

C20_Witness ==
  /\ last.op = "assign" /\ last.alive
  /\ Cardinality(Existing(last.handles)) = MaxHandles
  /\ \E h \in Handles : last.handles[h] = "moved"
  /\ \E h \in Handles : last.handles[h] = "copy"
  /\ ref_count = MaxHandles

(***************************************************************************)
(* parse_scripts of the same scripts again.                                *)
(***************************************************************************)
\* Env::globals: the name and the type of every global of the AST, in order
globals(e) == [i \in DOMAIN e.ast |-> <<e.ast[i].name, e.ast[i].type>>]

\* the globals of the environment by name: the candidates of a call
functions_of(e) ==
  [n \in {e.ast[i].name : i \in DOMAIN e.ast} |->
     LET ids == SelectSeq([i \in DOMAIN e.ast |-> i], LAMBDA i : e.ast[i].name = n)
     IN [k \in 1..Len(ids) |-> e.ast[ids[k]].type]]

\* how a call of the function `name` resolves in the environment
resolve_call(e, name) ==
  LET r == resolve_use(functions_of(e), Use(name, FnT))
  IN [err |-> r.err, overload |-> r.overload]

GlobalSet(e) == {globals(e)[i] : i \in DOMAIN globals(e)}

WellTyped(files) == \A k \in 1..Len(files) : files[k].err = "none"

ParsedAgain ==
  /\ last.op = "parse_scripts" /\ last.ok /\ WellTyped(last.files)
  /\ last'.op = "parse_scripts" /\ last'.files = last.files

\* C21: a second parse_scripts of the same well-typed scripts leaves the
\* set of globals (names and types) as the first call left it, and a call
\* of each function of the scripts resolves as it did after the first call.
C21_ParseTwiceSame ==
  [][ParsedAgain =>
       /\ GlobalSet(env') = GlobalSet(env)
       /\ \A k \in 1..Len(FnsOf(last.files)) :
            resolve_call(env', FnsOf(last.files)[k]) = resolve_call(env, FnsOf(last.files)[k])]_vars

\* the part of C21 that holds: the set of names and types is the same
C21_SameGlobalSet == [][ParsedAgain => GlobalSet(env') = GlobalSet(env)]_vars

(***************************************************************************)
(* The errors of a batch.                                                  *)
(***************************************************************************)
Stages == <<"read", "parse", "type", "sema", "overload">>

KindOf(stage) ==
  CASE stage = "read" -> "IO"
    [] stage = "parse" -> "Parse"
    [] stage = "type" -> "UndefinedType"
    [] stage = "sema" -> "TypeMismatch"
    [] OTHER -> "NoMatchingOverload"

FailingAt(files, n) == {k \in 1..Len(files) : files[k].err = Stages[n]}

\* the first stage at which some file of the batch fails, 0 if none does
FirstFailing(files) ==
  IF \A n \in 1..Len(Stages) : FailingAt(files, n) = {} THEN 0
  ELSE CHOOSE n \in 1..Len(Stages) :
         /\ FailingAt(files, n) # {}
         /\ \A m \in 1..(n - 1) : FailingAt(files, m) = {}

ErrorSet == {last.errs[j] : j \in 1..Len(last.errs)}

\* C22 as stated: every file of the batch that has a problem, at whatever
\* stage, has an error in the list that the one invocation returns.
C22_AllErrorsTogether ==
  last.op = "parse_scripts" =>
    \A k \in 1..Len(last.files) :
      last.files[k].err # "none" => \E j \in 1..Len(last.errs) : last.errs[j][1] = k

\* C22: one invocation of parse_scripts reports, for the first stage at
\* which a file of the batch fails (file read, parse, undefined type, type
\* mismatch, overload resolution), the error of every file that fails at
\* that stage and nothing else: the stages after it are not run, and the
\* batch succeeds only when no file fails at any stage.
C22_FirstFailingStage ==
  last.op = "parse_scripts" =>
    /\ last.ok <=> FirstFailing(last.files) = 0
    /\ last.ok => last.errs = <<>>
    /\ ~last.ok =>
         /\ ErrorSet = {<<k, KindOf(Stages[FirstFailing(last.files)])>> :
                          k \in FailingAt(last.files, FirstFailing(last.files))}
         /\ Len(last.errs) = Cardinality(ErrorSet)

\* two files that do not parse, both reported
C22_Witness ==
  /\ last.op = "parse_scripts" /\ ~last.ok
  /\ Len(last.files) = 2
  /\ last.errs = <<(<<1, "Parse">>), (<<2, "Parse">>)>>

(***************************************************************************)
(* The commands of the repl over the bindings: `:b` lists them, `:a` waits *)
(* for them. Between two commands the executor goes on with the tasks of   *)
(* the runs before.                                                        *)
(***************************************************************************)
MaxReplTasks == 2

ReplInputs ==
  {Input("x", Lit(StrVal("abc"))), Input("y", ToStr("x")), Input("x", ToStr("y")),
   Input("", ToStr("y")), Input("", ToStr("x")), Input("", Id("x"))}

\* what a command hands back: its output, nothing for the caller to hold
ReplOut(op, out) ==
  [op |-> op, inp |-> Input("", Bad), ok |-> TRUE, err |-> "", name |-> "",
   res |-> <<>>, rtype |-> NoType, wrap |-> "none", out |-> out]

\* sorted: the names in the order of std::string
NameOrder == <<"x", "y">>

sorted(S) == SelectSeq(NameOrder, LAMBDA n : n \in S)

marker(st) == IF st = "Ready" THEN "" ELSE IF st = "Borrowed" THEN "&" ELSE "*"

\* run(BindingsCmd)
list_bindings(cs, bs) ==
  LET ordered == sorted(DOMAIN bs)
  IN [header |-> Cardinality(DOMAIN bs),
      lines |-> [k \in 1..Len(ordered) |->
                   [name |-> ordered[k],
                    mark |-> marker(find_binding_state(cs, bs[ordered[k]])),
                    type |-> bs[ordered[k]].type]]]

BindingsCmd ==
  /\ pc = "idle"
  /\ last' = ReplOut(":b", list_bindings(cells, bindings))
  /\ cells' = Sweep(cells, CellsOf(bindings), tasks)
  /\ UNCHANGED <<env, bindings, pc, exMode, tasks>>

AwaitLists == {<<>>, <<"x">>, <<"y", "x">>}

\* the values run(AwaitCmd) waits for
awaited(bs, names) ==
  IF names = <<>> THEN CellsOf(bs)
  ELSE UNION {SeqRange(bs[n].values) : n \in SeqRange(names) \cap DOMAIN bs}

not_found(bs, names) == SelectSeq(names, LAMBDA n : n \notin DOMAIN bs)

\* run(AwaitCmd) is entered
AwaitCmd ==
  /\ pc = "idle"
  /\ \E names \in AwaitLists :
       last' = ReplOut(":a", [names |-> names, lines |-> not_found(bindings, names)])
  /\ pc' = "awaiting"
  /\ cells' = Sweep(cells, CellsOf(bindings), tasks)
  /\ UNCHANGED <<env, bindings, exMode, tasks>>

\* a variant of await_done that does not wait
await_done_at_once(cs, c) == TRUE

\* await of a value that is unresolved or lent out blocks
await_done(cs, c) == cs[c].st = "ready"

\* run(AwaitCmd) returns: every await has returned
AwaitReturn ==
  /\ pc = "awaiting"
  /\ \A c \in awaited(bindings, last.out.names) : await_done(cells, c)
  /\ pc' = "idle"
  /\ UNCHANGED <<env, bindings, last, exMode, cells, tasks>>

NextRepl ==
  \/ \E inp \in ReplInputs : RunWith(inp, FALSE, FALSE, MaxReplTasks)
  \/ RunReturn
  \/ \E t \in tasks : TaskStart(t)
  \/ \E t \in tasks : TaskFinish(t)
  \/ BindingsCmd
  \/ AwaitCmd
  \/ AwaitReturn

SpecRepl == Init /\ [][NextRepl]_vars

\* the executor runs the tasks it holds, and a command whose awaits have
\* returned returns
SpecReplFair ==
  /\ SpecRepl
  /\ WF_vars(\E t \in tasks : TaskStart(t))
  /\ WF_vars(\E t \in tasks : TaskFinish(t))
  /\ WF_vars(AwaitReturn)

Lent(cs, b) == \E c \in SeqRange(b.values) : cs[c].shares > 0

Unresolved(cs, b) == \E c \in SeqRange(b.values) : cs[c].st = "pending"

Listed23 == last'.op = ":b" /\ last' # last

\* C23: the listing of `:b` has one line per binding, in the order of the
\* names, and its header is the number of bindings; a binding is marked &
\* if one of its values is lent out, otherwise * if one of its values is
\* unresolved, otherwise it has no marker; the command leaves the
\* environment and the bindings as they were.
C23_Listing ==
  [][Listed23 =>
       /\ env' = env /\ bindings' = bindings
       /\ last'.out.header = Cardinality(DOMAIN bindings)
       /\ Len(last'.out.lines) = Cardinality(DOMAIN bindings)
       /\ {last'.out.lines[k].name : k \in 1..Len(last'.out.lines)} = DOMAIN bindings
       /\ \A j, k \in 1..Len(last'.out.lines) :
            j < k => /\ last'.out.lines[j].name = "x"
                     /\ last'.out.lines[k].name = "y"
       /\ \A k \in 1..Len(last'.out.lines) :
            LET b == bindings[last'.out.lines[k].name]
            IN last'.out.lines[k].mark =
                 (IF Lent(cells, b) THEN "&"
                  ELSE IF Unresolved(cells, b) THEN "*" ELSE "")]_vars

\* a listing with a binding that is unresolved and lent out at once, and
\* one that is only lent
C23_Witness ==
  /\ last.op = ":b"
  /\ last.out.header = 2
  /\ \A k \in 1..2 : last.out.lines[k].mark = "&"
  /\ \E c \in SeqRange(bindings["y"].values) : cells[c].st = "pending" /\ cells[c].shares > 0

ReadyValue(c) == cells[c].st # "pending" /\ cells[c].shares = 0

AwaitedNames ==
  IF last.out.names = <<>> THEN DOMAIN bindings
  ELSE SeqRange(last.out.names) \cap DOMAIN bindings

AwaitReturns == pc = "awaiting" /\ pc' = "idle"

AwaitSteps ==
  /\ (pc = "awaiting" \/ pc' = "awaiting") => DOMAIN bindings' = DOMAIN bindings
  /\ AwaitReturns =>
       /\ last' = last
       /\ \A n \in AwaitedNames : \A c \in SeqRange(bindings[n].values) : ReadyValue(c)
       /\ last.out.lines = SelectSeq(last.out.names, LAMBDA n : n \notin DOMAIN bindings)

\* C24: `:a` returns only when every value of every awaited binding is
\* resolved and not lent out: all the bindings when no name is given, the
\* named bindings that exist otherwise, with one 'Binding <name> not found'
\* line for each name that is not a binding; the names of the bindings are
\* the same throughout, and a command that waits returns once the tasks it
\* waits for have run.
C24_Await ==
  /\ [][AwaitSteps]_vars
  /\ (pc = "awaiting") ~> (pc = "idle")

\* `:a y x` with no binding y has returned, with one line for y
C24_Witness ==
  /\ pc = "idle" /\ last.op = ":a" /\ exMode = "task"
  /\ last.out.names = <<"y", "x">>
  /\ last.out.lines = <<"y">>
  /\ "x" \in DOMAIN bindings

\* `:a` is waiting for a value that a task has yet to produce
AwaitBlocked ==
  /\ pc = "awaiting"
  /\ \E n \in AwaitedNames : \E c \in SeqRange(bindings[n].values) : cells[c].st = "pending"

(***************************************************************************)
(* The placeholders of generate_fns.                                       *)
(***************************************************************************)
\* the function whose graph a call of the Inst runs
GraphOf(prog, inst) == prog[inst].fn

LogIndex(ev) == {k \in 1..Len(last.log) : last.log[k] = ev}

BatchInsts == {last.fns[k][2] : k \in 1..Len(last.fns)}

\* C25: generate_fns allocates one placeholder for every function of the
\* batch before it lowers any body, and when it returns each of these
\* placeholders was set exactly once, to the graph of its function (bound
\* with the captured function values when the body refers to functions);
\* every captured value is the Inst of the function referred to, be it
\* defined later in the batch, the function itself or a native, so a call
\* runs the graph of the function that was named.
C25_Placeholders ==
  last.op = "generate_fns" =>
    /\ Len(last.fns) = Len(last.new_fns)
    /\ Cardinality(BatchInsts) = Len(last.new_fns)
    /\ \A k \in 1..Len(last.new_fns) :
         LET inst == last.fns[k][2]
         IN /\ last.fns[k][1] = last.new_fns[k].name
            /\ Cardinality(LogIndex(<<"placeholder", inst>>)) = 1
            /\ \A i \in LogIndex(<<"placeholder", inst>>) :
                 \A j \in 1..Len(last.log) : last.log[j][1] = "create_graph" => i < j
            /\ last.prog[inst].sets = 1
            /\ last.prog[inst].tag \in {"graph", "bound"}
            /\ last.prog[inst].tag = "bound" <=> last.new_fns[k].calls # <<>>
            /\ GraphOf(last.prog, inst) = last.new_fns[k].name
            /\ Len(last.prog[inst].values) = Len(last.new_fns[k].calls)
            /\ \A j \in 1..Len(last.new_fns[k].calls) :
                 GraphOf(last.prog, last.prog[inst].values[j]) = last.new_fns[k].calls[j]
    /\ \A i \in 1..Len(last.prog) : last.prog[i].tag # "placeholder"

\* f refers to g, defined after it, and g to itself and to f
C25_Witness ==
  /\ last.op = "generate_fns"
  /\ last.new_fns = <<NewFn("f", <<"g">>), NewFn("g", <<"g", "f">>)>>
  /\ last.prog[last.fns[1][2]].tag = "bound"
  /\ GraphOf(last.prog, last.prog[last.fns[1][2]].values[1]) = "g"

(***************************************************************************)
(* The copies a graph makes.                                               *)
(***************************************************************************)
CopiesOnEdge(e) == IF e.by = "copy" THEN 1 ELSE 0

\* the consumers by Copy between an input of the graph and a term, a
\* borrower that returns what it sees by value being one
RECURSIVE CopiesTo(_, _)
CopiesTo(g, t) ==
  IF t <= g.nIn THEN 0
  ELSE LET nd == g.nodes[t - g.nIn]
       IN CopiesTo(g, nd.ins[1].t) + CopiesOnEdge(nd.ins[1])
          + (IF nd.fn = "copy" THEN 1 ELSE 0)

RECURSIVE InputOf(_, _)
InputOf(g, t) == IF t <= g.nIn THEN t ELSE InputOf(g, g.nodes[t - g.nIn].ins[1].t)

\* C26: a value that a graph hands out was copied once for every consumer
\* by Copy (or borrower that returns it by value) on its way from the input
\* and not otherwise: none along Move edges only, one for a Copy edge while
\* the original still goes by move to another output with none, and none
\* for an input that one node borrows and that is then moved to an output.
C26_CopiesCounted ==
  \A k \in 1..Len(last.g.outs) :
    (cells[last.res[k]].st = "ready" /\ last.inputs[InputOf(last.g, last.g.outs[k].t)].ty = "sentinal")
      => /\ cells[last.res[k]].val.ty = "sentinal"
         /\ cells[last.res[k]].val.i = last.inputs[InputOf(last.g, last.g.outs[k].t)].i
         /\ cells[last.res[k]].val.cp =
              CopiesTo(last.g, last.g.outs[k].t) + CopiesOnEdge(last.g.outs[k])

\* the sentinal graph has run to its end on the sequential executor:
\* 0, 1, 0, 1 and 0 copies
C26_Witness ==
  /\ last.op = "execute" /\ last.g.name = "sentinal" /\ exMode = "seq"
  /\ tasks = {}
  /\ [k \in 1..Len(last.g.outs) |-> cells[last.res[k]].val.cp] = <<0, 1, 0, 1, 0>>

(***************************************************************************)
(* Lowering of a checked function to a graph. An expression carries the    *)
(* type the type checker gave it; a term is the pair of a node and one of  *)
(* its outputs, node 0 being the inputs of the graph.                      *)
(***************************************************************************)
\* a variant of pass_bys_of: a borrow is walked into like a tuple
RECURSIVE pass_bys_descend(_, _)
pass_bys_descend(type, pass_bys) ==
  CASE type.tag = "Leaf" ->
         Append(pass_bys, IF type.id \in copy_types THEN "Copy" ELSE "Move")
    [] type.tag = "Fn" -> Append(pass_bys, "Copy")
    [] OTHER ->
         LET RECURSIVE from(_, _)
             from(k, acc) ==
               IF k > Len(type.kids) THEN acc
               ELSE from(k + 1, pass_bys_descend(type.kids[k], acc))
         IN from(1, pass_bys)

RECURSIVE pass_bys_of(_, _)
pass_bys_of(type, pass_bys) ==
  CASE type.tag = "Leaf" ->
         Append(pass_bys, IF type.id \in copy_types THEN "Copy" ELSE "Move")
    [] type.tag = "Fn" -> Append(pass_bys, "Copy")
    [] type.tag = "Borrow" -> Append(pass_bys, "Borrow")
    [] OTHER ->
         LET RECURSIVE from(_, _)
             from(k, acc) ==
               IF k > Len(type.kids) THEN acc
               ELSE from(k + 1, pass_bys_of(type.kids[k], acc))
         IN from(1, pass_bys)

RECURSIVE borrows_of(_)
borrows_of(type) ==
  CASE type.tag \in {"Leaf", "Fn"} -> <<FALSE>>
    [] type.tag = "Borrow" -> <<TRUE>>
    [] OTHER ->
         LET RECURSIVE from(_, _)
             from(k, acc) ==
               IF k > Len(type.kids) THEN acc
               ELSE from(k + 1, acc \o borrows_of(type.kids[k]))
         IN from(1, <<>>)

RECURSIVE output_count_of(_)
output_count_of(type) ==
  CASE type.tag \in {"Leaf", "Fn"} -> 1
    [] OTHER ->
         LET RECURSIVE from(_)
             from(k) ==
               IF k > Len(type.kids) THEN 0
               ELSE output_count_of(type.kids[k]) + from(k + 1)
         IN from(1)

\* count_terms of append_bindings
RECURSIVE count_terms(_)
count_terms(type) ==
  CASE type.tag \in {"Tuple", "Borrow"} ->
         LET RECURSIVE from(_)
             from(k) ==
               IF k > Len(type.kids) THEN 0
               ELSE count_terms(type.kids[k]) + from(k + 1)
         IN from(1)
    [] OTHER -> 1

\* checked expressions: the type of a node follows from its children
Typed(tag, name, type, kids) == [tag |-> tag, name |-> name, type |-> type, kids |-> kids]
TLit == Typed("ExprLiteral", "1", Leaf("i32"), <<>>)
TIdent(n, type) == Typed("ExprIdent", n, type, <<>>)
TFnRef(n, a, r) == Typed("EnvFunctionRef", n, FnOf(a, r), <<>>)
TTuple(ks) == Typed("ExprTuple", "", TupleT([k \in 1..Len(ks) |-> ks[k].type]), ks)
TBorrow(e) == Typed("ExprBorrow", "", BorrowT(e.type), <<e>>)
TSelect(c, a, b) == Typed("ExprSelect", "", a.type, <<c, a, b>>)
TCall(f, a) == Typed("ExprCall", "", f.type.kids[2], <<f, a>>)

\* ConstructingGraph::add: the node is recorded, its outputs are the terms
cg_add(ctx, fn, inputs, pass_bys, nout) ==
  [ctx |-> [ctx EXCEPT !.adds = Append(@, [fn |-> fn, inputs |-> inputs,
                                           pass_bys |-> pass_bys, nout |-> nout])],
   terms |-> [k \in 1..nout |-> <<Len(ctx.adds) + 1, k - 1>>]]

\* the identifiers of the pattern take the terms from left to right
RECURSIVE append_bindings(_, _, _, _)
append_bindings(pattern, terms, k, offset) ==
  IF k > Len(pattern) THEN << >>
  ELSE (pattern[k].name :> SubSeq(terms, offset + 1, offset + count_terms(pattern[k].type)))
       @@ append_bindings(pattern, terms, k + 1, offset + count_terms(pattern[k].type))

RECURSIVE add_expr(_, _)
RECURSIVE add_exprs(_, _, _, _)
RECURSIVE add_select_expr(_, _)
RECURSIVE add_call_expr(_, _)

add_exprs(ctx, exprs, k, terms) ==
  IF k > Len(exprs) THEN [ctx |-> ctx, terms |-> terms]
  ELSE LET r == add_expr(ctx, exprs[k])
       IN add_exprs(r.ctx, exprs, k + 1, terms \o r.terms)

add_select_expr(ctx, e) ==
  LET c == add_expr(ctx, e.kids[1])
      i == add_expr(c.ctx, e.kids[2])
      el == add_expr(i.ctx, e.kids[3])
      pass_bys == pass_bys_of(e.kids[3].type,
                    pass_bys_of(e.kids[2].type, pass_bys_of(e.kids[1].type, <<>>)))
  IN cg_add(el.ctx, "select", c.terms \o i.terms \o el.terms, pass_bys,
            output_count_of(e.type))

add_call_expr(ctx, e) ==
  LET callee == e.kids[1]
      arg == e.kids[2]
      a == add_expr(ctx, arg)
      output_count == output_count_of(e.type)
  IN IF callee.tag = "EnvFunctionRef"
     THEN cg_add(a.ctx, callee.name, a.terms, pass_bys_of(arg.type, <<>>), output_count)
     ELSE LET f == add_expr(a.ctx, callee)
          IN cg_add(f.ctx, "functional", f.terms \o a.terms,
                    pass_bys_of(arg.type, pass_bys_of(callee.type, <<>>)), output_count)

add_expr(ctx, e) ==
  CASE e.tag \in {"ExprLiteral", "EnvFunctionRef"} -> cg_add(ctx, "value", <<>>, <<>>, 1)
    [] e.tag = "ExprIdent" -> [ctx |-> ctx, terms |-> ctx.bindings[e.name]]
    [] e.tag = "ExprBorrow" -> add_expr(ctx, e.kids[1])
    [] e.tag = "ExprTuple" -> add_exprs(ctx, e.kids, 1, <<>>)
    [] e.tag = "ExprSelect" -> add_select_expr(ctx, e)
    [] OTHER -> add_call_expr(ctx, e)

\* make_graph, then the body, then finalize
create_graph(pattern, expr) ==
  LET type == TupleT([k \in 1..Len(pattern) |-> pattern[k].type])
      terms == [k \in 1..Len(borrows_of(type)) |-> <<0, k - 1>>]
      r == add_expr([adds |-> <<>>, bindings |-> append_bindings(pattern, terms, 1, 0)], expr)
  IN [adds |-> r.ctx.adds, output_terms |-> r.terms,
      output_pass_bys |-> pass_bys_of(expr.type, <<>>)]

\* the parameters of the function that is lowered
I32 == Leaf("i32")
Str == Leaf("string")
BoolT == Leaf("bool")
PairT == TupleT(<<I32, Str>>)
Pattern ==
  <<[name |-> "x", type |-> I32], [name |-> "s", type |-> Str],
    [name |-> "p", type |-> PairT], [name |-> "b", type |-> BoolT]>>

TAtoms == {TLit, TIdent("x", I32), TIdent("s", Str), TIdent("p", PairT)}
TParts == {TIdent("x", I32), TBorrow(TIdent("x", I32)), TBorrow(TIdent("p", PairT)), TIdent("s", Str)}
TArgs ==
  TAtoms \cup {TBorrow(a) : a \in TAtoms}
  \cup {TTuple(<<a, b>>) : a \in TParts, b \in TParts}
  \cup {TBorrow(TTuple(<<TIdent("x", I32), TIdent("s", Str)>>))}

\* the results a callee has: one value, or a pair
TResults == {I32, PairT}

TBodies ==
  {TCall(TFnRef("g", a.type, r), a) : a \in TArgs, r \in TResults}
  \cup {TCall(TSelect(TIdent("b", BoolT), TFnRef("g", a.type, I32), TFnRef("h", a.type, I32)), a) :
          a \in TArgs}
  \cup UNION {{TSelect(TIdent("b", BoolT), a, c) : c \in {d \in TArgs : d.type = a.type}} :
                a \in TArgs}

\* the types pass_bys_of is given on its own
TypeAtoms ==
  {I32, Str, FnOf(Str, I32), BorrowT(I32), BorrowT(Str), BorrowT(PairT),
   BorrowT(FnOf(Str, I32)), Unit, PairT, TupleT(<<Str, BorrowT(PairT), I32>>)}
PassByTypes ==
  TypeAtoms \cup {TupleT(<<a>>) : a \in TypeAtoms}
  \cup {TupleT(<<a, b>>) : a \in TypeAtoms, b \in TypeAtoms}

LowerInputs ==
  {[op |-> "type", type |-> t] : t \in PassByTypes}
  \cup {[op |-> "checked_fn", pattern |-> Pattern, expr |-> e] : e \in TBodies}

PassBysOf ==
  /\ pc = "idle"
  /\ last.op = "type"
  /\ last' = [op |-> "pass_bys_of", type |-> last.type, out |-> pass_bys_of(last.type, <<>>)]
  /\ pc' = "done"
  /\ UNCHANGED <<env, bindings, exMode, cells, tasks>>

CreateGraph ==
  /\ pc = "idle"
  /\ last.op = "checked_fn"
  /\ last' = [op |-> "create_graph", pattern |-> last.pattern, expr |-> last.expr,
              out |-> create_graph(last.pattern, last.expr)]
  /\ pc' = "done"
  /\ UNCHANGED <<env, bindings, exMode, cells, tasks>>

InitLower == SemaInit(LowerInputs)

NextLower ==
  \/ PassBysOf
  \/ CreateGraph

SpecLower == InitLower /\ [][NextLower]_vars

\* the nodes of a type that are reached through tuples alone and are not
\* tuples themselves, as paths from the type
RECURSIVE TopPaths(_, _)
TopPaths(type, path) ==
  IF type.tag = "Tuple"
  THEN UNION {TopPaths(type.kids[k], Append(path, k)) : k \in 1..Len(type.kids)}
  ELSE {path}

\* the place of such a node from left to right
PlaceOf(type, p) == 1 + Cardinality({q \in TopPaths(type, <<>>) : Before(q, p)})

ExpectedPassBy(node) ==
  CASE node.tag = "Borrow" -> "Borrow"
    [] node.tag = "Fn" -> "Copy"
    [] OTHER -> IF node.id \in copy_types THEN "Copy" ELSE "Move"

\* C27: pass_bys_of lists, from left to right, one entry for every node of
\* the type that is reached through tuples alone: Borrow for a borrow,
\* whatever is under it, Copy for a function, Copy for a leaf that is in
\* copy_types and Move for any other leaf; a tuple has no entry of its own.
C27_PassBys ==
  (last.op = "pass_bys_of") =>
    /\ Len(last.out) = Cardinality(TopPaths(last.type, <<>>))
    /\ \A p \in TopPaths(last.type, <<>>) :
         last.out[PlaceOf(last.type, p)] = ExpectedPassBy(NodeAt(last.type, p))

C27_Witness ==
  /\ last.op = "pass_bys_of"
  /\ last.type = TupleT(<<TupleT(<<Str, BorrowT(PairT), I32>>), FnOf(Str, I32)>>)
  /\ last.out = <<"Move", "Borrow", "Copy", "Copy">>

\* the nodes the lowering added with inputs: select, functional and the
\* direct calls
InputAdds == {k \in 1..Len(last.out.adds) : last.out.adds[k].fn # "value"}

\* a borrow whose operand is not one value
RECURSIVE BorrowsOne(_)
BorrowsOne(type) ==
  /\ type.tag = "Borrow" => output_count_of(type) = 1
  /\ type.tag \in {"Tuple", "Borrow"} =>
       \A k \in 1..Len(type.kids) : BorrowsOne(type.kids[k])

RECURSIVE TypesUnder(_)
TypesUnder(e) == {e.type} \cup UNION {TypesUnder(e.kids[k]) : k \in 1..Len(e.kids)}

\* C29: every node the lowering adds gets as many PassBy tags as input
\* terms, and the finalized graph as many output pass-bys as output terms,
\* for every checked body, those with an argument or a branch of a
\* borrowed tuple type included.
C29_TagsMatchTerms ==
  (last.op = "create_graph") =>
    /\ \A k \in InputAdds :
         Len(last.out.adds[k].pass_bys) = Len(last.out.adds[k].inputs)
    /\ Len(last.out.output_pass_bys) = Len(last.out.output_terms)

\* the same for the bodies in which every borrow is of one value
C29_MatchWithoutBorrowedTuples ==
  (last.op = "create_graph" /\ \A t \in TypesUnder(last.expr) : BorrowsOne(t)) =>
    /\ \A k \in InputAdds :
         Len(last.out.adds[k].pass_bys) = Len(last.out.adds[k].inputs)
    /\ Len(last.out.output_pass_bys) = Len(last.out.output_terms)

C29_BorrowedTupleLowered ==
  /\ last.op = "create_graph"
  /\ last.expr = TCall(TFnRef("g", BorrowT(PairT), I32), TBorrow(TIdent("p", PairT)))
  /\ last.out.adds = <<[fn |-> "g", inputs |-> <<<<0, 2>>, <<0, 3>>>>,
                        pass_bys |-> <<"Borrow">>, nout |-> 1]>>

(***************************************************************************)
(* The walk of calculate_ident_graph over one node, entered with a stack   *)
(* that the nodes before it left. The node has the ASTID <<1>>; the        *)
(* patterns already on the stack have ASTIDs outside of it.                *)
(***************************************************************************)
WalkStacks ==
  {<<>>, <<[name |-> "a", id |-> <<0, 1>>]>>,
   <<[name |-> "a", id |-> <<0, 1>>], [name |-> "b", id |-> <<0, 2>>]>>,
   <<[name |-> "a", id |-> <<0, 1>>], [name |-> "a", id |-> <<0, 2>>]>>}

WalkNodes ==
  {b \in AstBodies : b.tag = "ExprWith"}
  \cup {FnNode(p, b) : p \in {PIdent("a"), PTuple(<<PIdent("a"), PIdent("b")>>)}, b \in AstInner}
  \cup {Assignment(p, e) : p \in AstPatterns, e \in AstInner}

WalkInputs == {[op |-> "node", stack |-> st, node |-> n] : st \in WalkStacks, n \in WalkNodes}

WalkNode ==
  /\ pc = "idle"
  /\ last.op = "node"
  /\ \E r \in {calculate_ident_graph_at([fanouts |-> <<>>, globals |-> <<>>, stack |-> last.stack],
                                        last.node, <<1>>)} :
       last' = [op |-> "walked", stack |-> last.stack, node |-> last.node,
                fanouts |-> r.fanouts, after |-> r.stack]
  /\ pc' = "done"
  /\ UNCHANGED <<env, bindings, exMode, cells, tasks>>

InitScope == SemaInit(WalkInputs)

NextScope == WalkNode

SpecScope == InitScope /\ [][NextScope]_vars

IsPrefix(p, q) == Len(p) <= Len(q) /\ SubSeq(q, 1, Len(p)) = p

\* the assignments of the tree under the node walked
Assignments == {q \in IdsUnder(last.node, <<1>>) : NodeAt(last.node, Tail(q)).tag = "Assignment"}

\* the identifiers of the expression of the assignment at q
IdentsOfExpr(q) ==
  {id \in IdsUnder(last.node, <<1>>) :
     IsPrefix(Append(q, 2), id) /\ NodeAt(last.node, Tail(id)).tag = "ExprIdent"}

\* C28: no identifier of the expression of a `let` resolves to a pattern
\* of that `let`, and the walk of a Fn or an ExprWith leaves the scope
\* stack as it found it.
C28_Scoping ==
  (last.op = "walked") =>
    /\ \A q \in Assignments : \A id \in IdentsOfExpr(q) :
         \A k \in 1..Len(fanout(last.fanouts, id)) :
           ~IsPrefix(Append(q, 1), fanout(last.fanouts, id)[k])
    /\ last.node.tag \in {"Fn", "ExprWith"} => last.after = last.stack

\* let a = a; a entered with an a on the stack: the a of the expression is
\* the previous a, the a of the body is the new one, and the stack is back
C28_Witness ==
  /\ last.op = "walked"
  /\ last.stack = <<[name |-> "a", id |-> <<0, 1>>]>>
  /\ last.node = ExprWith(Assignment(PIdent("a"), ExprIdent("a")), ExprIdent("a"))
  /\ fanout(last.fanouts, <<1, 1, 2>>) = <<<<0, 1>>>>
  /\ fanout(last.fanouts, <<1, 2>>) = <<<<1, 1, 1>>>>
  /\ last.after = last.stack

\* an assignment on its own leaves its pattern on the stack: both
\* identifiers of (a, b)
C28_AssignmentPushes ==
  /\ last.op = "walked"
  /\ last.node.tag = "Assignment"
  /\ Len(last.after) = Len(last.stack) + 2

(***************************************************************************)
(* Capture by value of bindings of more than one value: x an i32, y a      *)
(* string, f a function, and z a tuple made of them, on the sequential     *)
(* executor.                                                               *)
(***************************************************************************)
MaxCaptureCells == 5

CaptureNames == {"x", "y", "f", "z"}

CaptureInputs ==
  {Input("x", Lit(IntVal(3))), Input("y", Lit(StrVal("abc"))), Input("f", Fn("clone")),
   Input("z", Pair("x", "y")), Input("z", Pair("x", "x")), Input("z", Pair("f", "f")),
   Input("z", Pair("f", "y")),
   Input("", Pair("z", "x"))}
  \cup {Input("", Id(n)) : n \in CaptureNames}

InitCapture ==
  /\ env = create_env_data
  /\ bindings = NoBindings
  /\ pc = "idle"
  /\ last = NoCall
  /\ exMode = "seq"
  /\ cells = [c \in 1..MaxCaptureCells |-> FreeCell]
  /\ tasks = {}

NextCapture ==
  \/ \E inp \in CaptureInputs : RunCall(inp, FALSE, FALSE)
  \/ RunReturn
  \/ \E t \in tasks : TaskStart(t)
  \/ \E t \in tasks : TaskFinish(t)

SpecCapture == InitCapture /\ [][NextCapture]_vars

\* every leaf of the type is in copy_types; a function is no leaf
AllLeavesCopy(type) ==
  \A p \in TopPaths(type, <<>>) :
    NodeAt(type, p).tag = "Leaf" => NodeAt(type, p).id \in copy_types

\* a successful run that captures by value starts
CaptureStarts == pc = "idle" /\ pc' = "running" /\ last'.ok /\ ValueUses(last'.inp.e) # {}

\* what the graph was given for the expression can be seen after the call:
\* it is the result, or the values of a name that had no binding before
Observable == last'.inp.let = "" \/ last'.inp.let \notin DOMAIN bindings

GivenValues ==
  IF last'.inp.let = "" THEN last'.res ELSE bindings'[last'.inp.let].values

\* the names captured by value, in the order of the expression
CapturedSeq == SelectSeq(<<last'.inp.e.a, last'.inp.e.b>>, LAMBDA n : n # "")

\* where the values of the k-th captured name start in GivenValues
GivenOffset(k) == IF k = 1 THEN 0 ELSE Len(bindings[CapturedSeq[1]].values)

\* the value at place i of what was given for the k-th captured name is a
\* new future that a task fills with a copy read through a borrow of c
ClonedThroughBorrow(k, i, c) ==
  \E t \in tasks' \ tasks :
    /\ t.fn = "copy"
    /\ t.ins = <<In(c, "borrow")>>
    /\ Observable => t.out = GivenValues[GivenOffset(k) + i]
    /\ t.out \notin CellsOf(bindings)
    /\ cells'[c].shares > cells[c].shares

\* the future c itself was handed on, with no task to read it
Taken(k, i, c) ==
  /\ \A t \in tasks' \ tasks : c \notin InCells(t)
  /\ Observable => (GivenValues[GivenOffset(k) + i] = c /\ cells'[c] = cells[c])

CaptureAllOrNothing ==
  CaptureStarts =>
    /\ Observable =>
         Len(GivenValues) =
           Len(bindings[CapturedSeq[1]].values)
           + (IF Len(CapturedSeq) = 2 THEN Len(bindings[CapturedSeq[2]].values) ELSE 0)
    /\ \A k \in 1..Len(CapturedSeq) :
         LET n == CapturedSeq[k]
             b == bindings[n]
         IN IF AllLeavesCopy(b.type)
            THEN /\ \A i \in 1..Len(b.values) : ClonedThroughBorrow(k, i, b.values[i])
                 /\ n # last'.inp.let => (n \in DOMAIN bindings' /\ bindings'[n] = b)
            ELSE /\ \A i \in 1..Len(b.values) : Taken(k, i, b.values[i])
                 /\ n # last'.inp.let => n \notin DOMAIN bindings'

\* C30: a binding that run captures by value is copied or taken as a
\* whole: when every leaf of its type is in copy_types (a function counts
\* as copyable) each of its values is cloned through a borrow and the
\* binding stays as it was; when one leaf is not, every value, those of
\* copyable leaves too, is taken and the binding is erased.
C30_AllOrNothing == [][CaptureAllOrNothing]_vars

\* z = (3, 'abc') was captured by `z`: both futures are the result, no
\* task was made and z is gone
C30_Witness ==
  /\ pc = "running"
  /\ last.ok /\ last.inp = Input("", Id("z"))
  /\ Len(last.res) = 2
  /\ tasks = {}
  /\ cells[last.res[1]].val = IntVal(3)
  /\ cells[last.res[2]].val = StrVal("abc")
  /\ "z" \notin DOMAIN bindings

\* z = (clone, clone) was captured by `z`: two copies are under way and z
\* stays
C30_CopiedWhole ==
  /\ pc = "running"
  /\ last.ok /\ last.inp = Input("", Id("z"))
  /\ "z" \in DOMAIN bindings
  /\ bindings["z"].type = TupleT(<<FnT, FnT>>)
  /\ {t.ins[1].c : t \in tasks} = SeqRange(bindings["z"].values)

\* z = (clone, 'abc') was captured by `z`: the function was taken with the
\* string
C30_FnTaken ==
  /\ pc = "running"
  /\ last.ok /\ last.inp = Input("", Id("z"))
  /\ Len(last.res) = 2
  /\ tasks = {}
  /\ cells[last.res[1]].val = FnVal("clone")
  /\ cells[last.res[2]].val = StrVal("abc")
  /\ "z" \notin DOMAIN bindings

====
